---- MODULE Spec2Model ----
(***************************************************************************)
(* A model of the vicis code generator.                                    *)
(*                                                                         *)
(* Part 1: the spiller (codegen/pass/spiller.rs) acting on a machine       *)
(* function (vregs, vreg users, instruction arena, slots, layout) and on   *)
(* the liveness information (program points, live ranges).                 *)
(* Part 2: the lowering driver (codegen/lower/mod.rs), compile_module and  *)
(* compile_function with the target's hooks and passes as callbacks.       *)
(* Part 3: the module parser (core/src/ir/module/parser.rs) on a text of   *)
(* tokens.                                                                 *)
(* Part 4: the virtual register registry (src/codegen/register/mod.rs).    *)
(* Part 5: the constant parser (core/src/ir/value/parser.rs).              *)
(* Part 6: the interpreter driver (interpreter/examples/interpreter.rs).   *)
(* Part 7: the function printer (core/src/ir/function/print.rs).           *)
(* Each part has its own initial predicate and specification; the          *)
(* variables of the other parts stay idle.                                 *)
(***************************************************************************)
EXTENDS Integers, Sequences, FiniteSets, TLC

VARIABLES
    vregs,          \* function.data.vregs : [map : VReg -> VRegData, cur]
    vreg_users,     \* function.data.vreg_users : VReg -> Seq of {inst_id, read, write}
    instructions,   \* function.data.instructions : arena, id = index
    slots,          \* function.slots : Seq of [ty, size]
    layout,         \* function.layout : block -> Seq of instruction ids
    inst_to_pp,     \* liveness.inst_to_pp : instruction id -> program point
    live_ranges,    \* liveness : the vregs that have a computed live range
    outcome,        \* how the last call of spill ended
    call,           \* the last call of spill: its arguments, what it created, the state before
    nspills,        \* number of spill calls made so far
    ir_module,      \* compile_module: the IR module, a sequence of functions
    functions,      \* compile_module: the arena of the compiled functions
    cf,             \* the locals of the running call of compile_function
    hook_log,       \* the calls of the target's Lower hooks made so far
    pass_log,       \* the module passes run so far
    mach_module,    \* compile_module: the machine module, once built
    lower_result,   \* "running", or what compile_module returned: "Ok", "Err"
    input,          \* the top-level items of the text parse was called on
    source,         \* module::parser::parse: the input that is left
    module,         \* module::parser::parse: the module under construction
    parse_result,   \* "running", or how parse ended
    registry,       \* a VRegs registry
    reg_calls,      \* the calls made on the registry so far, with what they returned
    reg_before,     \* the registry before the last call
    ktext,          \* the text and the type a constant parser was called on
    kst,            \* the position of that call and, once it is over, its result
    main_ret,       \* interpreter driver: what run_function returned for `main`
    drv,            \* interpreter driver: its position and the code it exits with
    pfun,           \* the function FunctionAsmPrinter::print was called on
    pst             \* the printer: its position, indexes, cur_index and the text written

vars == <<vregs, vreg_users, instructions, slots, layout, inst_to_pp,
          live_ranges, outcome, call, nspills>>

lower_vars == <<ir_module, functions, cf, hook_log, pass_log, mach_module, lower_result>>

parse_vars == <<input, source, module, parse_result>>

reg_vars == <<registry, reg_calls, reg_before>>

\* the variables of Parts 4 and later
const_vars == <<ktext, kst>>

interp_vars == <<main_ret, drv>>

print_vars == <<pfun, pst>>

more_vars == <<reg_vars, const_vars, interp_vars, print_vars>>

all_vars == <<vars, lower_vars, parse_vars, more_vars>>

\* the lowering driver is not in use
LowerIdle ==
    /\ ir_module = <<>>
    /\ functions = <<>>
    /\ cf = [pc |-> "idle"]
    /\ hook_log = <<>>
    /\ pass_log = <<>>
    /\ mach_module = [built |-> FALSE]
    /\ lower_result = "idle"

\* the parser is not in use
ParseIdle ==
    /\ input = <<>>
    /\ source = <<>>
    /\ module = [idle |-> TRUE]
    /\ parse_result = "idle"

\* no call has been made on the registry
RegIdle ==
    /\ registry = [map |-> <<>>, cur |-> 0]
    /\ reg_calls = <<>>
    /\ reg_before = [map |-> <<>>, cur |-> 0]

\* no constant parser has been called
ConstIdle ==
    /\ ktext = <<>>
    /\ kst = [pc |-> "idle"]

\* the interpreter driver has not been started
InterpIdle ==
    /\ main_ret = [k |-> "idle"]
    /\ drv = [pc |-> "idle"]

\* no printer has been created
PrintIdle ==
    /\ pfun = [idle |-> TRUE]
    /\ pst = [pc |-> "idle"]

MoreIdle == RegIdle /\ ConstIdle /\ InterpIdle /\ PrintIdle

---------------------------------------------------------------------------
(* Bounds of the model *)

\* number of machine instructions of the function before the first spill
NumInsts == 3

\* number of spill calls in one run
MaxSpills == 4

\* the machine blocks of the function
Blocks == {1, 2}

\* Option::None, for instruction ids, program points and vregs (all >= 0)
None == 0 - 1

---------------------------------------------------------------------------
(* Sequence helpers *)

Range(s) == {s[i] : i \in DOMAIN s}

IndexOf(s, x) == CHOOSE i \in DOMAIN s : s[i] = x

InsertAt(s, i, x) == SubSeq(s, 1, i - 1) \o <<x>> \o SubSeq(s, i, Len(s))

Reverse(s) == [i \in DOMAIN s |-> s[Len(s) + 1 - i]]

---------------------------------------------------------------------------
(* VRegs: codegen/register/mod.rs *)

VRegs_new == [map |-> <<>>, cur |-> 0]

\* a faulty add_vreg_data: cur is not advanced
add_vreg_data_same_key(vs, ty) ==
    [map |-> (vs.cur :> [vreg |-> vs.cur, ty |-> ty]) @@ vs.map,
     cur |-> vs.cur]

\* returns the registry after the insertion; the key returned is vs.cur
add_vreg_data(vs, ty) ==
    [map |-> (vs.cur :> [vreg |-> vs.cur, ty |-> ty]) @@ vs.map,
     cur |-> vs.cur + 1]

type_for(vs, vreg) == vs.map[vreg].ty

change_ty(vs, vreg, ty) == [vs EXCEPT !.map[vreg].ty = ty]

\* vregs.create_from(vreg): a new vreg of the type of vreg
create_from(vs, vreg) == add_vreg_data(vs, type_for(vs, vreg))

is_i32(ty) == ty = "i32"

\* T::type_size(types, ty)
type_size(ty) == IF ty = "i32" THEN 4 ELSE 8

---------------------------------------------------------------------------
(* Machine instructions and the users of a vreg *)

Operand(v, r, w) == [vreg |-> v, read |-> r, write |-> w]

\* T::InstInfo::store_vreg_to_slot(function, vreg, slot, block)
store_vreg_to_slot(vreg, slot, block) ==
    [kind |-> "store", parent |-> block, slot |-> slot,
     ops |-> <<Operand(vreg, TRUE, FALSE)>>]

\* T::InstInfo::load_from_slot(function, vreg, slot, block)
load_from_slot(vreg, slot, block) ==
    [kind |-> "load", parent |-> block, slot |-> slot,
     ops |-> <<Operand(vreg, FALSE, TRUE)>>]

\* inst.data.is_copy()
is_copy(inst) == inst.kind = "copy"

RECURSIVE add_uses(_, _, _)
\* vreg_users gains one user record of instruction id for each operand
add_uses(users, id, ops) ==
    IF ops = <<>> THEN users
    ELSE LET op == Head(ops)
         IN add_uses([users EXCEPT ![op.vreg] =
                         Append(@, [inst_id |-> id, read |-> op.read, write |-> op.write])],
                     id, Tail(ops))

\* function.data.create_inst(inst): allocates the instruction in the arena
\* and records it as a user of its operands; the new id is Len(instructions) + 1
create_inst(st, inst) ==
    LET id == Len(st.instructions) + 1
    IN [st EXCEPT !.instructions = Append(@, inst),
                  !.vreg_users = add_uses(@, id, inst.ops)]

\* inst.replace_vreg(&mut vreg_users, from, to): every operand of the instruction
\* that is `from` becomes `to`, and the instruction moves from the users of
\* `from` to the users of `to`
replace_vreg(st, id, from, to) ==
    LET ops == st.instructions[id].ops
        moved == SelectSeq(st.vreg_users[from], LAMBDA u : u.inst_id = id)
    IN [st EXCEPT
          !.instructions[id].ops =
              [i \in DOMAIN ops |->
                  IF ops[i].vreg = from THEN [ops[i] EXCEPT !.vreg = to] ELSE ops[i]],
          !.vreg_users =
              [v \in DOMAIN @ |->
                  IF v = from THEN SelectSeq(@[v], LAMBDA u : u.inst_id # id)
                  ELSE IF v = to THEN @[v] \o moved
                  ELSE @[v]]]

---------------------------------------------------------------------------
(* Layout: the order of the instructions of each block *)

\* layout.next_inst_of(inst): the layout successor in the block, if any
next_inst_of(st, inst) ==
    LET s == st.layout[st.instructions[inst].parent]
        i == IndexOf(s, inst)
    IN IF i < Len(s) THEN s[i + 1] ELSE None

\* layout.prev_inst_of(inst): the layout predecessor in the block, if any
prev_inst_of(st, inst) ==
    LET s == st.layout[st.instructions[inst].parent]
        i == IndexOf(s, inst)
    IN IF i > 1 THEN s[i - 1] ELSE None

\* layout.insert_inst_after(after, inst, block)
layout_insert_inst_after(lay, after, inst, block) ==
    [lay EXCEPT ![block] = InsertAt(@, IndexOf(@, after) + 1, inst)]

\* layout.insert_inst_before(before, inst, block)
layout_insert_inst_before(lay, before, inst, block) ==
    [lay EXCEPT ![block] = InsertAt(@, IndexOf(@, before), inst)]

---------------------------------------------------------------------------
(* Liveness: program points *)

\* a program point is block_index * 2^20 + instruction_offset * 2^4
BlockStride == 2 ^ 20
InstStride == 2 ^ 4

\* the program point liveness gives to the i-th instruction (from 0) of block b
ProgramPoint(b, i) == b * BlockStride + i * InstStride

\* ProgramPoint::between(x, y): a point strictly between, None when there is no gap
between(x, y) == IF y - x < 2 THEN None ELSE (x + y) \div 2

---------------------------------------------------------------------------
(* The spiller: codegen/pass/spiller.rs                                    *)
(*                                                                         *)
(* The operators below act on a record st of the function, the liveness,   *)
(* the caller's new_vregs vector and the panic, if any, that ended the     *)
(* call: "" while the call is running normally.                            *)

Panicked(st) == st.panic # ""

Panic(st, what) == [st EXCEPT !.panic = what]

\* Spiller::insert_inst_after(after, inst, block)
insert_inst_after(st, after, inst, block) ==
    LET after_pp == st.inst_to_pp[after]
        next_after == next_inst_of(st, after)
    IN IF next_after = None THEN Panic(st, "unwrap next_inst_of")
       ELSE LET next_after_pp == st.inst_to_pp[next_after]
                inst_pp == between(after_pp, next_after_pp)
            IN IF inst_pp = None THEN Panic(st, "unwrap between")
               ELSE [st EXCEPT
                       !.inst_to_pp = @ @@ (inst :> inst_pp),
                       !.layout = layout_insert_inst_after(@, after, inst, block)]

\* a faulty insert_inst_before: the instruction gets the program point of the
\* predecessor of `before` instead of a point between the two
insert_inst_before_same_pp(st, before, inst, block) ==
    LET prev_before == prev_inst_of(st, before)
    IN IF prev_before = None THEN Panic(st, "unwrap prev_inst_of")
       ELSE [st EXCEPT
               !.inst_to_pp = @ @@ (inst :> st.inst_to_pp[prev_before]),
               !.layout = layout_insert_inst_before(@, before, inst, block)]

\* Spiller::insert_inst_before(before, inst, block)
insert_inst_before(st, before, inst, block) ==
    LET before_pp == st.inst_to_pp[before]
        prev_before == prev_inst_of(st, before)
    IN IF prev_before = None THEN Panic(st, "unwrap prev_inst_of")
       ELSE LET prev_before_pp == st.inst_to_pp[prev_before]
                inst_pp == between(prev_before_pp, before_pp)
            IN IF inst_pp = None THEN Panic(st, "unwrap between")
               ELSE [st EXCEPT
                       !.inst_to_pp = @ @@ (inst :> inst_pp),
                       !.layout = layout_insert_inst_before(@, before, inst, block)]

\* the instructions that write vreg, in the order of its user list
defs_of(st, vreg) ==
    LET w == SelectSeq(st.vreg_users[vreg], LAMBDA u : u.write)
    IN [i \in DOMAIN w |-> w[i].inst_id]

\* the instructions that read vreg, in the order of its user list
uses_of(st, vreg) ==
    LET r == SelectSeq(st.vreg_users[vreg], LAMBDA u : u.read)
    IN [i \in DOMAIN r |-> r[i].inst_id]

\* the store of new_vreg to slot is created and inserted after def_id
spill_after(st, def_id, new_vreg, slot) ==
    LET def_block == st.instructions[def_id].parent
        s1 == create_inst(st, store_vreg_to_slot(new_vreg, slot, def_block))
        inst == Len(s1.instructions)
    IN insert_inst_after(s1, def_id, inst, def_block)

\* the non-copy writer the loop over the two defs leaves in def_id
two_addr_def(st, defs) ==
    IF ~is_copy(st.instructions[defs[2]]) THEN defs[2]
    ELSE IF ~is_copy(st.instructions[defs[1]]) THEN defs[1]
    ELSE None

\* a faulty insert_spill: every vreg with two or more writers is handled as a
\* two-address pair
insert_spill_many(st, vreg, slot) ==
    LET defs == defs_of(st, vreg)
        new_vreg == st.vregs.cur
        s1 == [st EXCEPT !.vregs = create_from(@, vreg),
                         !.vreg_users = @ @@ (new_vreg :> <<>>),
                         !.new_vregs = Append(@, new_vreg)]
    IN IF defs = <<>> THEN st
       ELSE IF Len(defs) = 1
         THEN spill_after(replace_vreg(s1, defs[1], vreg, new_vreg),
                          defs[1], new_vreg, slot)
       ELSE LET def_id == two_addr_def(s1, defs)
                s2 == replace_vreg(replace_vreg(s1, defs[1], vreg, new_vreg),
                                   defs[2], vreg, new_vreg)
            IN IF def_id = None THEN Panic(s2, "unwrap def_id")
               ELSE spill_after(s2, def_id, new_vreg, slot)

\* a faulty insert_spill: of two writers only the one stored after is rewritten
insert_spill_keep_copy(st, vreg, slot) ==
    LET defs == defs_of(st, vreg)
        new_vreg == st.vregs.cur
        s1 == [st EXCEPT !.vregs = create_from(@, vreg),
                         !.vreg_users = @ @@ (new_vreg :> <<>>),
                         !.new_vregs = Append(@, new_vreg)]
    IN IF defs = <<>> THEN st
       ELSE IF Len(defs) = 1
         THEN spill_after(replace_vreg(s1, defs[1], vreg, new_vreg),
                          defs[1], new_vreg, slot)
       ELSE IF Len(defs) = 2
         THEN LET def_id == two_addr_def(s1, defs)
              IN IF def_id = None THEN Panic(s1, "unwrap def_id")
                 ELSE spill_after(replace_vreg(s1, def_id, vreg, new_vreg),
                                  def_id, new_vreg, slot)
       ELSE Panic(s1, "invalid")

\* Spiller::insert_spill(vreg, slot, new_vregs)
insert_spill(st, vreg, slot) ==
    LET defs == defs_of(st, vreg)
        new_vreg == st.vregs.cur
        s1 == [st EXCEPT !.vregs = create_from(@, vreg),
                         !.vreg_users = @ @@ (new_vreg :> <<>>),
                         !.new_vregs = Append(@, new_vreg)]
    IN IF defs = <<>> THEN st
       ELSE IF Len(defs) = 1
         THEN spill_after(replace_vreg(s1, defs[1], vreg, new_vreg),
                          defs[1], new_vreg, slot)
       ELSE IF Len(defs) = 2
         THEN LET def_id == two_addr_def(s1, defs)
                  s2 == replace_vreg(replace_vreg(s1, defs[1], vreg, new_vreg),
                                     defs[2], vreg, new_vreg)
              IN IF def_id = None THEN Panic(s2, "unwrap def_id")
                 ELSE spill_after(s2, def_id, new_vreg, slot)
       ELSE Panic(s1, "invalid")

RECURSIVE reload_uses(_, _, _, _, _)
\* the loop of insert_reload over the reading instructions
reload_uses(st, uses, vreg, new_vreg, slot) ==
    IF uses = <<>> \/ Panicked(st) THEN st
    ELSE LET use_id == Head(uses)
             use_block == st.instructions[use_id].parent
             s1 == replace_vreg(st, use_id, vreg, new_vreg)
             s2 == create_inst(s1, load_from_slot(new_vreg, slot, use_block))
             inst == Len(s2.instructions)
         IN reload_uses(insert_inst_before(s2, use_id, inst, use_block),
                        Tail(uses), vreg, new_vreg, slot)

\* Spiller::insert_reload(vreg, slot, new_vregs)
insert_reload(st, vreg, slot) ==
    LET uses == uses_of(st, vreg)
        new_vreg == st.vregs.cur
        s1 == [st EXCEPT !.vregs = create_from(@, vreg),
                         !.vreg_users = @ @@ (new_vreg :> <<>>),
                         !.new_vregs = Append(@, new_vreg)]
    IN IF uses = <<>> THEN st
       ELSE reload_uses(s1, uses, vreg, new_vreg, slot)

\* liveness.compute_live_ranges(function, v) for every v of new_vregs, in order
compute_live_ranges(st) ==
    [st EXCEPT !.live_ranges = @ \cup Range(st.new_vregs),
               !.computed = st.new_vregs]

\* liveness.remove_vreg(vreg)
remove_vreg(st, vreg) == [st EXCEPT !.live_ranges = @ \ {vreg}]

\* function.slots.add_slot(ty, size); the new slot id is Len(slots) + 1
add_slot(st, ty, size) == [st EXCEPT !.slots = Append(@, [ty |-> ty, size |-> size])]

\* Spiller::spill(vreg, new_vregs)
spill(st, vreg) ==
    LET ty == type_for(st.vregs, vreg)
        s0 == add_slot(st, ty, type_size(ty))
        slot == Len(s0.slots)
        s1 == insert_spill(s0, vreg, slot)
        s2 == insert_reload(s1, vreg, slot)
    IN IF ~is_i32(ty) THEN Panic(st, "assert is_i32")
       ELSE IF Panicked(s1) THEN s1
       ELSE IF Panicked(s2) THEN s2
       ELSE remove_vreg(compute_live_ranges(s2), vreg)

---------------------------------------------------------------------------
(* The machine function before the first spill *)

\* what an instruction of the function does with vreg 0: nothing, a read, a
\* write by a copy, a write by a compute instruction, or a read and a write
\* (the compute instruction of a two-address pair)
InstShapes ==
    { [kind |-> "compute", ops |-> <<>>],
      [kind |-> "compute", ops |-> <<Operand(0, TRUE, FALSE)>>],
      [kind |-> "copy",    ops |-> <<Operand(0, FALSE, TRUE)>>],
      [kind |-> "compute", ops |-> <<Operand(0, FALSE, TRUE)>>],
      [kind |-> "compute", ops |-> <<Operand(0, TRUE, TRUE)>>] }

\* vreg 0 is an i32, vreg 1 an i64
InitVRegs == add_vreg_data(add_vreg_data(VRegs_new, "i32"), "i64")

\* instruction i of the function: the first m instructions are block 1, the
\* others block 2; the last instruction also reads vreg 1
InitInst(shape, m, i) ==
    [kind |-> shape[i].kind,
     parent |-> IF i <= m THEN 1 ELSE 2,
     slot |-> None,
     ops |-> shape[i].ops \o (IF i = NumInsts THEN <<Operand(1, TRUE, FALSE)>> ELSE <<>>)]

RECURSIVE InitData(_, _, _)
\* the arena and the user lists after create_inst of the first n instructions
InitData(shape, m, n) ==
    IF n = 0
    THEN [instructions |-> <<>>, vreg_users |-> [v \in DOMAIN InitVRegs.map |-> <<>>]]
    ELSE create_inst(InitData(shape, m, n - 1), InitInst(shape, m, n))

InitLayout(m) ==
    [b \in Blocks |->
        IF b = 1 THEN [i \in 1..m |-> i]
        ELSE IF b = 2 THEN [i \in 1..(NumInsts - m) |-> m + i]
        ELSE <<>>]

\* liveness numbers the instructions of every block in layout order
InitPP(m) ==
    [i \in 1..NumInsts |->
        IF i <= m THEN ProgramPoint(1, i - 1) ELSE ProgramPoint(2, i - m - 1)]

\* the record of the function, the liveness and a call's new_vregs
St(passed) ==
    [vregs |-> vregs, vreg_users |-> vreg_users, instructions |-> instructions,
     slots |-> slots, layout |-> layout, inst_to_pp |-> inst_to_pp,
     live_ranges |-> live_ranges, new_vregs |-> passed, computed |-> <<>>,
     panic |-> ""]

NoCall == [vreg |-> None, passed |-> <<>>, new_vregs |-> <<>>, computed |-> <<>>]

SpillInit ==
    \E shape \in [1..NumInsts -> InstShapes], m \in 1..NumInsts, rev \in BOOLEAN :
        LET d == InitData(shape, m, NumInsts)
        IN /\ vregs = InitVRegs
           /\ instructions = d.instructions
           /\ vreg_users = [v \in DOMAIN d.vreg_users |->
                               IF rev THEN Reverse(d.vreg_users[v]) ELSE d.vreg_users[v]]
           /\ slots = <<>>
           /\ layout = InitLayout(m)
           /\ inst_to_pp = InitPP(m)
           /\ live_ranges = {v \in DOMAIN d.vreg_users : d.vreg_users[v] # <<>>}
           /\ outcome = "none"
           /\ call = [NoCall EXCEPT !.vreg = None] @@ [pre |-> <<>>]
           /\ nspills = 0
           /\ LowerIdle
           /\ ParseIdle
           /\ MoreIdle

\* the process is gone once a call has panicked
Aborted == outcome \notin {"none", "ok"}

\* the new_vregs vectors a caller passes: empty, or holding a vreg from before
\* (a caller that collects the new vregs of several spills in one vector and
\* spills one of them passes the vreg itself)
Passed(vreg) == {<<>>, <<vreg>>}

\* one call spiller.spill(vreg, &mut new_vregs), for a vreg that has a live range
Spill(vreg, passed) ==
    /\ ~Aborted
    /\ vreg \in live_ranges
    /\ nspills < MaxSpills
    /\ LET pre == St(passed)
           r == spill(pre, vreg)
       IN /\ vregs' = r.vregs
          /\ vreg_users' = r.vreg_users
          /\ instructions' = r.instructions
          /\ slots' = r.slots
          /\ layout' = r.layout
          /\ inst_to_pp' = r.inst_to_pp
          /\ live_ranges' = r.live_ranges
          /\ outcome' = IF Panicked(r) THEN r.panic ELSE "ok"
          /\ call' = [vreg |-> vreg, passed |-> passed, new_vregs |-> r.new_vregs,
                      computed |-> r.computed, pre |-> pre]
          /\ nspills' = nspills + 1
          /\ UNCHANGED <<lower_vars, parse_vars, more_vars>>

SpillNext == \E vreg \in DOMAIN vregs.map : \E passed \in Passed(vreg) : Spill(vreg, passed)

\* the spiller is not in use
SpillIdle ==
    /\ vregs = VRegs_new
    /\ vreg_users = <<>>
    /\ instructions = <<>>
    /\ slots = <<>>
    /\ layout = <<>>
    /\ inst_to_pp = <<>>
    /\ live_ranges = {}
    /\ outcome = "idle"
    /\ call = [NoCall EXCEPT !.vreg = None] @@ [pre |-> <<>>]
    /\ nspills = 0

SpecSpill == SpillInit /\ [][SpillNext]_all_vars

---------------------------------------------------------------------------
(* Vocabulary of the properties of the spiller *)

\* a call of spill has been made; it returned (it did not panic)
Called == call.vreg # None
Returned == Called /\ outcome = "ok"

\* the function and the liveness as they are now
Now == St(<<>>)

\* the writers and the readers of the spilled vreg when spill was called
PreDefs == defs_of(call.pre, call.vreg)
PreUses == uses_of(call.pre, call.vreg)

\* what the call created
CreatedVRegs == call.pre.vregs.cur .. (vregs.cur - 1)
CreatedInsts == (Len(call.pre.instructions) + 1) .. Len(instructions)
CreatedSlots == (Len(call.pre.slots) + 1) .. Len(slots)

InLayout(lay, i) == \E b \in DOMAIN lay : i \in Range(lay[b])

\* the stores and the loads the call inserted in the layout
Stores == {i \in CreatedInsts : instructions[i].kind = "store" /\ InLayout(layout, i)}
Loads == {i \in CreatedInsts : instructions[i].kind = "load" /\ InLayout(layout, i)}

References(insts, i, v) == \E k \in DOMAIN insts[i].ops : insts[i].ops[k].vreg = v
ReadsVReg(insts, i, v) ==
    \E k \in DOMAIN insts[i].ops : insts[i].ops[k].vreg = v /\ insts[i].ops[k].read
WritesVReg(insts, i, v) ==
    \E k \in DOMAIN insts[i].ops : insts[i].ops[k].vreg = v /\ insts[i].ops[k].write

\* a precedes b in the layout of one block
Precedes(a, b) ==
    /\ instructions[a].parent = instructions[b].parent
    /\ LET s == layout[instructions[a].parent]
       IN IndexOf(s, a) < IndexOf(s, b)

\* the readers of the spilled vreg that did not also write it
PrePureUses == {u \in Range(PreUses) : ~WritesVReg(call.pre.instructions, u, call.vreg)}

\* the store of vreg w to the slot of this call stands right after instruction d,
\* in d's block, and before the instruction that followed d
StoreRightAfter(s, d, w) ==
    /\ instructions[s].ops = <<Operand(w, TRUE, FALSE)>>
    /\ CreatedSlots = {instructions[s].slot}
    /\ instructions[s].parent = instructions[d].parent
    /\ next_inst_of(Now, d) = s
    /\ next_inst_of(call.pre, d) # None => Precedes(s, next_inst_of(call.pre, d))

\* the load of the slot of this call into vreg r stands right before instruction u
LoadRightBefore(l, u, r) ==
    /\ instructions[l].ops = <<Operand(r, FALSE, TRUE)>>
    /\ CreatedSlots = {instructions[l].slot}
    /\ instructions[l].parent = instructions[u].parent
    /\ prev_inst_of(Now, u) = l

---------------------------------------------------------------------------
(* Properties of the spiller *)

\* the one writer of the spilled vreg writes a vreg created by the call and no
\* longer refers to the spilled vreg, and exactly one store was inserted: the
\* store of that vreg to the new slot, the layout successor of the writer
OneDefSpilled ==
    LET d == PreDefs[1]
    IN \E w \in CreatedVRegs :
          /\ WritesVReg(instructions, d, w)
          /\ ~References(instructions, d, call.vreg)
          /\ \E s \in Stores : Stores = {s} /\ StoreRightAfter(s, d, w)

\* C1: after a call of spill for a vreg with exactly one writer d, d writes a
\* vreg created by the call instead of the spilled vreg, and exactly one store
\* of that vreg to the new slot was inserted, in d's block, as the layout
\* successor of d and before the instruction that followed d.
C1_OneDefStoreAfterDef ==
    (Called /\ Len(PreDefs) = 1) => OneDefSpilled

\* what holds of the one-writer case: the same, after every call that returns
OneDefSpilledWhenReturned ==
    (Returned /\ Len(PreDefs) = 1) => OneDefSpilled

\* the spilled vreg had two writers, one a copy and one not
TwoAddrCase ==
    /\ Len(PreDefs) = 2
    /\ \E c \in Range(PreDefs) : is_copy(call.pre.instructions[c])
    /\ \E c \in Range(PreDefs) : ~is_copy(call.pre.instructions[c])

\* both writers write the same vreg created by the call, and exactly one store
\* was inserted, right after the writer that is not the copy
TwoAddrSpilled ==
    LET copy == CHOOSE c \in Range(PreDefs) : is_copy(call.pre.instructions[c])
        compute == CHOOSE c \in Range(PreDefs) : ~is_copy(call.pre.instructions[c])
    IN \E w \in CreatedVRegs :
          /\ WritesVReg(instructions, copy, w)
          /\ WritesVReg(instructions, compute, w)
          /\ ~References(instructions, copy, call.vreg)
          /\ ~References(instructions, compute, call.vreg)
          /\ \E s \in Stores : Stores = {s} /\ StoreRightAfter(s, compute, w)
          /\ next_inst_of(Now, copy) \notin Stores

\* C2: after a call of spill for a vreg with two writers, one a copy and one a
\* compute instruction, both write the same vreg created by the call, and
\* exactly one store was inserted, right after the compute instruction and not
\* after the copy, in whichever order the user list held the two writers.
C2_TwoAddrStoreAfterCompute ==
    (Called /\ TwoAddrCase) => TwoAddrSpilled

\* what holds of the two-address case: the same, after every call that returns
TwoAddrSpilledWhenReturned ==
    (Returned /\ TwoAddrCase) => TwoAddrSpilled

\* C3: a call of spill for a vreg with more than two writers ends in the
\* panic "invalid" (the abort on the violated invariant), and has inserted no
\* instruction: the layout and the program points are those from before.
C3_ManyDefsAbort ==
    (Called /\ Len(PreDefs) > 2) =>
        /\ outcome = "invalid"
        /\ Stores = {}
        /\ layout = call.pre.layout
        /\ inst_to_pp = call.pre.inst_to_pp

C3_Witness == Called /\ Len(PreDefs) > 2

\* instruction u has a load of the new slot as its layout predecessor, in its
\* block, and reads the vreg that load defines instead of the spilled vreg
Reloaded(u) ==
    \E r \in CreatedVRegs : \E l \in Loads :
        /\ LoadRightBefore(l, u, r)
        /\ ReadsVReg(instructions, u, r)
        /\ ~References(instructions, u, call.vreg)

\* insert_spill has done its part of the call: the vreg had no writer, or the
\* store is in place
SpillInserted == PreDefs = <<>> \/ Stores # {}

\* C4: after a call of spill for an i32 vreg whose writers insert_spill has
\* handled, every instruction that read the vreg (here: and did not also write
\* it) has exactly one load of the new slot, its layout predecessor in its
\* block, and reads the vreg that load defines instead of the spilled vreg.
C4_LoadBeforeEveryReader ==
    (Called /\ is_i32(type_for(call.pre.vregs, call.vreg)) /\ SpillInserted) =>
        /\ \A u \in PrePureUses : Reloaded(u)
        /\ Cardinality(Loads) = Cardinality(PrePureUses)

\* what holds of the readers: after every call that returns, the readers that
\* did not also write the vreg are reloaded, each by one load, and a reader
\* that also wrote it has no load: it reads the vreg it writes
PureReadersReloadedWhenReturned ==
    Returned =>
        /\ \A u \in PrePureUses : Reloaded(u)
        /\ \A l \in Loads : next_inst_of(Now, l) \in PrePureUses
        /\ Cardinality(Loads) = Cardinality(PrePureUses)
        /\ \A u \in Range(PreUses) \ PrePureUses :
              /\ ~Reloaded(u)
              /\ \E w \in CreatedVRegs :
                    ReadsVReg(instructions, u, w) /\ WritesVReg(instructions, u, w)

\* the vregs the readers of the spilled vreg read after the call, in its place
ReadVRegs ==
    {r \in CreatedVRegs : \E u \in PrePureUses : ReadsVReg(instructions, u, r)}

\* C5: when spill returns for a vreg with k reading instructions, these read
\* k pairwise distinct vregs created by the call, each defined by the load
\* before its reader, and new_vregs gained these k vregs besides the write-vreg.
C5_OneReadVRegPerReader ==
    Returned =>
        /\ Cardinality(ReadVRegs) = Cardinality(PrePureUses)
        /\ Len(call.new_vregs) - Len(call.passed)
              = Cardinality(PrePureUses) + (IF PreDefs = <<>> THEN 0 ELSE 1)

\* what holds of the read-vregs: all the readers share one vreg
OneReadVRegWhenReturned ==
    Returned => Cardinality(ReadVRegs) = (IF PrePureUses = {} THEN 0 ELSE 1)

\* C6: when spill returns, the user list of the spilled vreg is empty and no
\* instruction of the function has the spilled vreg as an operand.
C6_NoReferenceLeft ==
    Returned =>
        /\ vreg_users[call.vreg] = <<>>
        /\ \A i \in DOMAIN instructions : ~References(instructions, i, call.vreg)

\* the spilled vreg had two writers, one of which also read it, and a reader
C6_Witness ==
    /\ Returned
    /\ Len(PreDefs) = 2
    /\ \E d \in Range(PreDefs) : d \in Range(PreUses)
    /\ PrePureUses # {}

\* C7: when spill returns, compute_live_ranges was invoked for exactly the
\* vregs the call created, each of them has a live range, and the spilled
\* vreg has none.
C7_RangesOfCreatedOnly ==
    Returned =>
        /\ Range(call.computed) = CreatedVRegs
        /\ CreatedVRegs \subseteq live_ranges
        /\ call.vreg \notin live_ranges

\* what holds of the live ranges: compute_live_ranges is invoked for the vregs
\* the caller passed and for those the call created
RangesOfNewVRegsWhenReturned ==
    Returned =>
        /\ Range(call.computed) = Range(call.passed) \cup CreatedVRegs
        /\ CreatedVRegs \subseteq live_ranges
        /\ call.vreg \notin live_ranges

\* C8: every instruction in the layout has a program point, and program points
\* increase strictly along the layout of every block, after any sequence of
\* spill calls, whether the last one returned or not.
C8_ProgramPointsOrdered ==
    \A b \in DOMAIN layout :
        /\ Range(layout[b]) \subseteq DOMAIN inst_to_pp
        /\ \A i, j \in DOMAIN layout[b] :
              i < j => inst_to_pp[layout[b][i]] < inst_to_pp[layout[b][j]]

\* a second spill has inserted a store and a load
C8_Witness ==
    /\ nspills >= 2
    /\ Stores # {}
    /\ Loads # {}

\* C9: no call of spill ends because ProgramPoint::between found no point
\* between two adjacent instructions.
C9_BetweenNeverFails == outcome # "unwrap between"

\* C10: a call of spill for a vreg that is not an i32 ends with the error Todo
\* and leaves the function and the liveness as they were.
C10_NonI32IsTodo ==
    (Called /\ ~is_i32(type_for(call.pre.vregs, call.vreg))) =>
        /\ outcome = "Todo"
        /\ Now = [call.pre EXCEPT !.new_vregs = <<>>]

\* what holds of a vreg that is not an i32: the call panics on the assertion
\* and leaves the function and the liveness as they were
NonI32PanicsUnchanged ==
    (Called /\ ~is_i32(type_for(call.pre.vregs, call.vreg))) =>
        /\ outcome = "assert is_i32"
        /\ Now = [call.pre EXCEPT !.new_vregs = <<>>]

\* the spilled vreg was an i32 with at most two writers
SpillableCase ==
    /\ Called
    /\ is_i32(type_for(call.pre.vregs, call.vreg))
    /\ Len(PreDefs) <= 2

\* C28: a call of spill for an i32 vreg with at most two writers does not abort
\* at a block edge: not when a writer is the last instruction of its block (no
\* layout successor), and not when a reader is the first instruction of its
\* block (no layout predecessor).
C28_NoAbortAtBlockEdges ==
    SpillableCase => outcome \notin {"unwrap next_inst_of", "unwrap prev_inst_of"}

\* what holds at the block edges: the call for a vreg whose one writer is the
\* last instruction of its block panics on the missing layout successor, and
\* no call that returned had a reader that was the first of its block
AbortsAtBlockEdges ==
    /\ (SpillableCase /\ Len(PreDefs) = 1 /\ next_inst_of(call.pre, PreDefs[1]) = None)
          => outcome = "unwrap next_inst_of"
    /\ Returned => \A u \in PrePureUses : prev_inst_of(call.pre, u) # None

---------------------------------------------------------------------------
(* Part 2: the lowering driver, codegen/lower/mod.rs                       *)
(*                                                                         *)
(* compile_module compiles the functions of an IR module one after the     *)
(* other and then runs the module passes of the target. The target's hooks *)
(* (Lower::lower, Lower::copy_args_to_vregs) and passes are callbacks that *)
(* may return an error; every action below is the driver's code up to and  *)
(* including one such call.                                                *)

\* number of instructions of an IR function besides the two terminators
NumIrInsts == 2

\* number of functions of the IR module
NumFuncs == 2

\* number of passes in T::module_pass_list()
NumPasses == 2

\* Opcode::has_side_effects, for the opcodes of the model
has_side_effects(opcode) == opcode \in {"store", "ret"}

\* the instruction has no result
is_void(opcode) == opcode \in {"store", "ret"}

\* the elements of a set of numbers in increasing order
RECURSIVE SetToSeq(_)
SetToSeq(S) ==
    IF S = {} THEN <<>>
    ELSE LET x == CHOOSE y \in S : \A z \in S : y <= z
         IN <<x>> \o SetToSeq(S \ {x})

\* an instruction of an IR function and where its result is used: nowhere, by
\* the next instruction of its block, or by the terminator of the other block
IrInstOptions ==
    { [opcode |-> "alloca", use |-> "local"],
      [opcode |-> "phi",    use |-> "local"],
      [opcode |-> "add",    use |-> "none"],
      [opcode |-> "add",    use |-> "local"],
      [opcode |-> "add",    use |-> "remote"],
      [opcode |-> "store",  use |-> "none"] }

\* a function declaration: no blocks
IrPrototype ==
    [params |-> <<"i32">>,
     data |-> [instructions |-> <<>>, basic_blocks |-> <<>>],
     layout |-> [blocks |-> <<>>, insts |-> <<>>]]

\* an IR function of two blocks: instructions 1..m and a terminator in the
\* entry block, the others and a terminator in the second block; the entry
\* block is block 2 of the arena when rev; the second block is a loop when loop
IrFunction(shape, m, rev, loop) ==
    LET K == NumIrInsts
        first == IF rev THEN 2 ELSE 1
        second == 3 - first
        parent(i) == IF i <= m \/ i = K + 1 THEN first ELSE second
        term(b) == IF b = first THEN K + 1 ELSE K + 2
        next(i) == IF i = m THEN K + 1 ELSE IF i = K THEN K + 2 ELSE i + 1
        users(i) ==
            IF i > K \/ shape[i].use = "none" THEN {}
            ELSE IF shape[i].use = "local" THEN {next(i)}
            ELSE {term(3 - parent(i))}
    IN [params |-> <<"i32">>,
        data |->
          [instructions |->
              [i \in 1..(K + 2) |->
                  [opcode |-> IF i > K THEN "ret" ELSE shape[i].opcode,
                   parent |-> parent(i),
                   users |-> users(i)]],
           basic_blocks |->
              [b \in {1, 2} |->
                  IF b = first
                  THEN [preds |-> {}, succs |-> {second}]
                  ELSE [preds |-> {first} \cup (IF loop THEN {second} ELSE {}),
                        succs |-> IF loop THEN {second} ELSE {}]]],
        layout |->
          [blocks |-> <<first, second>>,
           insts |->
              [b \in {1, 2} |->
                  IF b = first
                  THEN [j \in 1..(m + 1) |-> IF j <= m THEN j ELSE K + 1]
                  ELSE [j \in 1..(K - m + 1) |-> IF j <= K - m THEN m + j ELSE K + 2]]]]

\* Layout invariant of the IR: phi instructions stand only at the start of a block
PhiAtStart(function) ==
    \A b \in DOMAIN function.layout.insts :
        LET s == function.layout.insts[b]
        IN \A j \in DOMAIN s :
              function.data.instructions[s[j]].opcode = "phi" =>
                  \A h \in 1..(j - 1) : function.data.instructions[s[h]].opcode = "phi"

IrFunctions ==
    {IrPrototype} \cup
    { f \in { IrFunction(shape, m, rev, loop) :
                  shape \in [1..NumIrInsts -> IrInstOptions], m \in 0..NumIrInsts,
                  rev \in BOOLEAN, loop \in BOOLEAN } : PhiAtStart(f) }

\* function.layout.block_iter() and function.layout.inst_iter(block_id)
block_iter(function) == function.layout.blocks
inst_iter(function, block_id) == function.layout.insts[block_id]
inst_ref(function, inst_id) == function.data.instructions[inst_id]
users_of(function, inst_id) == function.data.instructions[inst_id].users

\* compile_function, "Create machine basic blocks": the first n IR blocks
RECURSIVE create_blocks(_, _)
create_blocks(function, n) ==
    IF n = 0
    THEN [basic_blocks |-> <<>>, layout_blocks |-> <<>>, block_map |-> <<>>]
    ELSE LET c == create_blocks(function, n - 1)
             block_id == block_iter(function)[n]
             new_block_id == Len(c.basic_blocks) + 1
         IN [basic_blocks |-> Append(c.basic_blocks, [preds |-> {}, succs |-> {}]),
             layout_blocks |-> Append(c.layout_blocks, new_block_id),
             block_map |-> c.block_map @@ (block_id :> new_block_id)]

\* a faulty "Insert preds and succs": the ids are copied without the mapping
insert_preds_succs_unmapped(function, c) ==
    [c EXCEPT !.basic_blocks =
        [nb \in DOMAIN c.basic_blocks |->
            LET block_id == CHOOSE b \in DOMAIN c.block_map : c.block_map[b] = nb
                block == function.data.basic_blocks[block_id]
            IN [preds |-> block.preds, succs |-> block.succs]]]

\* compile_function, "Insert preds and succs"
insert_preds_succs(function, c) ==
    [c EXCEPT !.basic_blocks =
        [nb \in DOMAIN c.basic_blocks |->
            LET block_id == CHOOSE b \in DOMAIN c.block_map : c.block_map[b] = nb
                block == function.data.basic_blocks[block_id]
            IN [preds |-> {c.block_map[pred] : pred \in block.preds},
                succs |-> {c.block_map[succ] : succ \in block.succs}]]]

\* no function is being compiled
NoCompile == [pc |-> "function"]

\* compile_function up to the loop over the blocks: the locals of the call.
\* pc is the driver's position: "block" at the head of the loop over the
\* blocks, "header" in the loop over the leading alloca and phi instructions,
\* "reverse" in the reverse loop, "finish" after it; i counts the blocks from
\* 1 and k is the position of the instruction loops in the block.
compile_function_begin(fn, function) ==
    LET c == insert_preds_succs(function, create_blocks(function, Len(block_iter(function))))
    IN [pc |-> "block", fn |-> fn, function |-> function,
        data |-> [basic_blocks |-> c.basic_blocks, instructions |-> <<>>],
        layout |-> [blocks |-> c.layout_blocks,
                    insts |-> [nb \in DOMAIN c.basic_blocks |-> <<>>]],
        block_map |-> c.block_map,
        vregs |-> VRegs_new,
        nslots |-> 0,
        inst_id_to_slot_id |-> <<>>,
        inst_id_to_vreg |-> <<>>,
        arg_idx_to_vreg |-> <<>>,
        merged_inst |-> {},
        i |-> 1, k |-> 0,
        insts_seq |-> <<>>, prologue_seq |-> <<>>,
        visited |-> {}, emitted |-> <<>>, called |-> <<>>, failed |-> FALSE]

\* the record of one call of a hook
HookCall(ctx, hook, inst_id, header, ok) ==
    [fn |-> ctx.fn, hook |-> hook, inst |-> inst_id, block |-> ctx.i,
     header |-> header, ok |-> ok]

\* a hook that returns Err(LoweringError::Todo)
HookFailed(ctx, hook, inst_id, header) ==
    [ctx EXCEPT !.failed = TRUE, !.pc = "failed",
                !.called = <<HookCall(ctx, hook, inst_id, header, FALSE)>>]

\* the hook may fold inst_id into its user: it is not an alloca or a phi, has
\* no side effects, and all its users are in its block
Mergeable(function, inst_id) ==
    LET inst == inst_ref(function, inst_id)
    IN /\ inst.opcode \notin {"alloca", "phi"}
       /\ ~has_side_effects(inst.opcode)
       /\ \A user \in inst.users : inst_ref(function, user).parent = inst.parent

\* the producers a hook call on the instructions S covers: the mergeable
\* instructions that S uses, directly or through other such producers
RECURSIVE producers_of(_, _, _)
producers_of(function, S, n) ==
    IF n = 0 THEN S
    ELSE producers_of(function,
             S \cup { p \in DOMAIN function.data.instructions :
                         Mergeable(function, p) /\ users_of(function, p) \cap S # {} },
             n - 1)

\* Lower::lower(ctx, inst) of a target, when it succeeds: it marks the
\* producers it folds as merged (mark_as_merged), pushes one machine
\* instruction for each of them and one for inst, and gives inst an output
\* vreg (set_output_for_inst) unless inst is void; an alloca becomes a stack
\* slot and pushes nothing
Lower_lower(ctx, inst_id) ==
    LET inst == inst_ref(ctx.function, inst_id)
        folded == (producers_of(ctx.function, {inst_id}, Len(ctx.function.data.instructions))
                      \ {inst_id}) \ (ctx.merged_inst \cup DOMAIN ctx.inst_id_to_vreg)
        cover == SetToSeq(folded) \o <<inst_id>>
    IN IF inst.opcode = "alloca"
       THEN [ctx EXCEPT !.nslots = @ + 1,
                        !.inst_id_to_slot_id = @ @@ (inst_id :> ctx.nslots + 1),
                        !.emitted = <<>>]
       ELSE [ctx EXCEPT
                !.merged_inst = @ \cup folded,
                !.vregs = IF is_void(inst.opcode) THEN @ ELSE add_vreg_data(@, "i32"),
                !.inst_id_to_vreg =
                    IF is_void(inst.opcode) THEN @ ELSE @ @@ (inst_id :> ctx.vregs.cur),
                !.emitted = [n \in DOMAIN cover |->
                                [by |-> inst_id, n |-> n, covers |-> cover[n]]]]

\* Lower::copy_args_to_vregs(ctx, params) of a target, when it succeeds: one
\* copy into a fresh vreg for every parameter
RECURSIVE Lower_copy_args_to_vregs(_, _)
Lower_copy_args_to_vregs(ctx, n) ==
    IF n = 0 THEN [ctx EXCEPT !.emitted = <<>>]
    ELSE LET c == Lower_copy_args_to_vregs(ctx, n - 1)
         IN [c EXCEPT !.vregs = add_vreg_data(@, c.function.params[n]),
                      !.arg_idx_to_vreg = @ @@ (n :> c.vregs.cur),
                      !.emitted = Append(@, [by |-> 0, n |-> n, covers |-> 0])]

\* a faulty head of the loop over the blocks: the prologue hook runs for
\* every block
start_block_all(c, ok) ==
    LET c0 == [c EXCEPT !.insts_seq = <<>>, !.prologue_seq = <<>>]
        a == Lower_copy_args_to_vregs(c0, Len(c0.function.params))
    IN IF ~ok THEN HookFailed(c0, "copy_args_to_vregs", 0, FALSE)
       ELSE [a EXCEPT !.prologue_seq = @ \o a.emitted,
                      !.called = <<HookCall(c0, "copy_args_to_vregs", 0, FALSE, TRUE)>>,
                      !.pc = "header", !.k = 1]

\* the head of one iteration of the loop over the blocks: fresh sequences
\* and, for the entry block, the prologue hook
start_block(c, ok) ==
    LET c0 == [c EXCEPT !.insts_seq = <<>>, !.prologue_seq = <<>>]
        a == Lower_copy_args_to_vregs(c0, Len(c0.function.params))
    IN IF c.i = 1
       THEN IF ~ok THEN HookFailed(c0, "copy_args_to_vregs", 0, FALSE)
            ELSE [a EXCEPT !.prologue_seq = @ \o a.emitted,
                           !.called = <<HookCall(c0, "copy_args_to_vregs", 0, FALSE, TRUE)>>,
                           !.pc = "header", !.k = 1]
       ELSE [c0 EXCEPT !.pc = "header", !.k = 1]

\* the IR block of the current iteration and its instructions
cur_block(c) == block_iter(c.function)[c.i]
cur_insts(c) == inst_iter(c.function, cur_block(c))

\* a faulty header loop: it runs in the entry block only
header_step_entry_only(c, ok) ==
    LET insts == cur_insts(c)
        inst_id == insts[c.k]
        a == Lower_lower(c, inst_id)
    IN IF c.i # 1 \/ c.k > Len(insts)
          \/ inst_ref(c.function, inst_id).opcode \notin {"alloca", "phi"}
       THEN [c EXCEPT !.pc = "reverse", !.k = Len(insts)]
       ELSE IF ~ok THEN HookFailed(c, "lower", inst_id, TRUE)
       ELSE [a EXCEPT !.prologue_seq = @ \o a.emitted,
                      !.called = <<HookCall(c, "lower", inst_id, TRUE, TRUE)>>,
                      !.k = @ + 1]

\* one iteration of "Only handle Alloca and Phi insts": the loop ends at the
\* end of the block or at the first instruction that is neither; otherwise
\* the hook lowers the instruction into prologue_seq
header_step(c, ok) ==
    LET insts == cur_insts(c)
        inst_id == insts[c.k]
        a == Lower_lower(c, inst_id)
    IN IF c.k > Len(insts)
          \/ inst_ref(c.function, inst_id).opcode \notin {"alloca", "phi"}
       THEN [c EXCEPT !.pc = "reverse", !.k = Len(insts)]
       ELSE IF ~ok THEN HookFailed(c, "lower", inst_id, TRUE)
       ELSE [a EXCEPT !.prologue_seq = @ \o a.emitted,
                      !.called = <<HookCall(c, "lower", inst_id, TRUE, TRUE)>>,
                      !.k = @ + 1]

\* a faulty test: an instruction without users is not skipped
skipped_if_used(function, inst_id) ==
    LET inst == inst_ref(function, inst_id)
    IN /\ ~has_side_effects(inst.opcode)
       /\ users_of(function, inst_id) # {}
       /\ \A user \in users_of(function, inst_id) :
              inst_ref(function, user).parent = inst.parent

\* the driver's test "has no side effects and has user instructions placed
\* in the same basic block"
skipped(function, inst_id) ==
    LET inst == inst_ref(function, inst_id)
    IN /\ ~has_side_effects(inst.opcode)
       /\ \A user \in users_of(function, inst_id) :
              inst_ref(function, user).parent = inst.parent

\* one iteration of the reverse loop: it ends at the start of the block or
\* at an alloca or phi; a skipped instruction is passed over; otherwise the
\* hook lowers the instruction into inst_seq, which is pushed on insts_seq
reverse_step(c, ok) ==
    LET insts == cur_insts(c)
        inst_id == insts[c.k]
        a == Lower_lower(c, inst_id)
    IN IF c.k = 0 \/ inst_ref(c.function, inst_id).opcode \in {"alloca", "phi"}
       THEN [c EXCEPT !.pc = "finish"]
       ELSE IF skipped(c.function, inst_id)
       THEN [c EXCEPT !.visited = @ \cup {inst_id}, !.k = @ - 1]
       ELSE IF ~ok
       THEN [HookFailed(c, "lower", inst_id, FALSE) EXCEPT !.visited = @ \cup {inst_id}]
       ELSE [a EXCEPT !.insts_seq = Append(@, a.emitted),
                      !.called = <<HookCall(c, "lower", inst_id, FALSE, TRUE)>>,
                      !.visited = @ \cup {inst_id},
                      !.k = @ - 1]

\* data.create_inst and layout.append_inst for the instructions of seq
RECURSIVE append_insts(_, _, _)
append_insts(c, seq, block) ==
    IF seq = <<>> THEN c
    ELSE LET mach_inst == Len(c.data.instructions) + 1
             c1 == [c EXCEPT !.data.instructions = Append(@, Head(seq)),
                             !.layout.insts[block] = Append(@, mach_inst)]
         IN append_insts(c1, Tail(seq), block)

\* the concatenation of the sequences of seqs, in order
RECURSIVE Flatten(_)
Flatten(seqs) == IF seqs = <<>> THEN <<>> ELSE Head(seqs) \o Flatten(Tail(seqs))

\* a faulty end of the iteration: insts_seq is not reversed
finish_block_unreversed(c) ==
    LET insts_seq == <<c.prologue_seq>> \o c.insts_seq
        a == append_insts(c, Flatten(insts_seq), c.block_map[cur_block(c)])
    IN [a EXCEPT !.pc = "block", !.i = @ + 1]

\* the end of the iteration: prologue_seq is pushed last, and the sequences
\* are appended to the machine block in reverse order of the pushes
finish_block(c) ==
    LET insts_seq == Append(c.insts_seq, c.prologue_seq)
        a == append_insts(c, Flatten(Reverse(insts_seq)), c.block_map[cur_block(c)])
    IN [a EXCEPT !.pc = "block", !.i = @ + 1]

\* Ok(MachFunction{..}): what compile_function returns
MachFunction(c) ==
    [params |-> c.function.params, data |-> c.data, layout |-> c.layout,
     nslots |-> c.nslots]

\* MachModule{..}: what compile_module builds from the compiled functions
MachModule(fs) == [functions |-> fs, passes |-> <<>>]

\* a faulty loop over the passes: the error of a pass is dropped
run_pass_ignoring(mod, ok) ==
    [module |-> [mod EXCEPT !.passes = Append(@, Len(@) + 1)], failed |-> FALSE]

\* pass(&mut mach_module)?: the next pass of the list runs on the module
run_pass(mod, ok) ==
    [module |-> [mod EXCEPT !.passes = Append(@, Len(@) + 1)], failed |-> ~ok]

\* the module passed to compile_module and the driver at its start
LowerInit ==
    /\ \E n \in 1..NumFuncs : \E f \in IrFunctions : ir_module = [j \in 1..n |-> f]
    /\ functions = <<>>
    /\ cf = NoCompile
    /\ hook_log = <<>>
    /\ pass_log = <<>>
    /\ mach_module = [built |-> FALSE]
    /\ lower_result = "running"
    /\ SpillIdle
    /\ ParseIdle
    /\ MoreIdle

LowerStep(c) ==
    /\ cf' = [c EXCEPT !.called = <<>>, !.emitted = <<>>]
    /\ hook_log' = hook_log \o c.called
    /\ lower_result' = IF c.failed THEN "Err" ELSE lower_result
    /\ UNCHANGED <<ir_module, functions, pass_log, mach_module, vars, parse_vars, more_vars>>

\* compile_module calls compile_function for the next function of the module
StartFunction ==
    /\ lower_result = "running"
    /\ cf.pc = "function"
    /\ mach_module.built = FALSE
    /\ Len(functions) < Len(ir_module)
    /\ LowerStep(compile_function_begin(Len(functions) + 1, ir_module[Len(functions) + 1]))

StartBlock ==
    /\ lower_result = "running"
    /\ cf.pc = "block"
    /\ cf.i <= Len(block_iter(cf.function))
    /\ \E ok \in BOOLEAN : LowerStep(start_block(cf, ok))

HeaderStep ==
    /\ lower_result = "running"
    /\ cf.pc = "header"
    /\ \E ok \in BOOLEAN : LowerStep(header_step(cf, ok))

ReverseStep ==
    /\ lower_result = "running"
    /\ cf.pc = "reverse"
    /\ \E ok \in BOOLEAN : LowerStep(reverse_step(cf, ok))

FinishBlock ==
    /\ lower_result = "running"
    /\ cf.pc = "finish"
    /\ LowerStep(finish_block(cf))

\* compile_function returns Ok and compile_module allocates the function
FinishFunction ==
    /\ lower_result = "running"
    /\ cf.pc = "block"
    /\ cf.i > Len(block_iter(cf.function))
    /\ functions' = Append(functions, MachFunction(cf))
    /\ cf' = NoCompile
    /\ UNCHANGED <<ir_module, hook_log, pass_log, mach_module, lower_result, vars, parse_vars, more_vars>>

\* all functions are compiled: compile_module builds the machine module
BuildModule ==
    /\ lower_result = "running"
    /\ cf.pc = "function"
    /\ mach_module.built = FALSE
    /\ Len(functions) = Len(ir_module)
    /\ mach_module' = [built |-> TRUE] @@ MachModule(functions)
    /\ UNCHANGED <<ir_module, functions, cf, hook_log, pass_log, lower_result, vars, parse_vars, more_vars>>

\* the next pass of T::module_pass_list() runs
RunPass ==
    /\ lower_result = "running"
    /\ mach_module.built
    /\ Len(pass_log) < NumPasses
    /\ \E ok \in BOOLEAN :
          LET r == run_pass(mach_module, ok)
          IN /\ mach_module' = IF r.failed THEN [built |-> FALSE] ELSE r.module
             /\ pass_log' = Append(pass_log, [pass |-> Len(pass_log) + 1, ok |-> ok])
             /\ lower_result' = IF r.failed THEN "Err" ELSE lower_result
    /\ UNCHANGED <<ir_module, functions, cf, hook_log, vars, parse_vars, more_vars>>

\* Ok(mach_module)
ReturnModule ==
    /\ lower_result = "running"
    /\ mach_module.built
    /\ Len(pass_log) = NumPasses
    /\ lower_result' = "Ok"
    /\ UNCHANGED <<ir_module, functions, cf, hook_log, pass_log, mach_module, vars, parse_vars, more_vars>>

LowerNext ==
    \/ StartFunction
    \/ StartBlock
    \/ HeaderStep
    \/ ReverseStep
    \/ FinishBlock
    \/ FinishFunction
    \/ BuildModule
    \/ RunPass
    \/ ReturnModule

SpecLower == LowerInit /\ [][LowerNext]_all_vars

---------------------------------------------------------------------------
(* Properties of the lowering driver *)

\* cf holds the locals of a call of compile_function
Compiling == cf.pc \notin {"function", "idle"}

\* the running call of compile_function has left the loop over the blocks
\* and returns Ok
FunctionDone == cf.pc = "block" /\ cf.i > Len(block_iter(cf.function))

\* the iteration of the loop over the blocks for block number bi of the
\* function being compiled is over
BlockDone(bi) == Compiling /\ cf.pc # "failed" /\ bi < cf.i

\* the header loop of the iteration for block number bi is over
HeaderDone(bi) ==
    BlockDone(bi) \/ (Compiling /\ bi = cf.i /\ cf.pc \in {"reverse", "finish"})

\* the calls of Lower::lower for the function being compiled
LowerCalls(header) ==
    LET T(hc) == hc.fn = cf.fn /\ hc.hook = "lower" /\ hc.header = header
    IN SelectSeq(hook_log, T)

\* the machine instructions of the machine block of block number bi
MachBlock(bi) ==
    LET mb == cf.block_map[block_iter(cf.function)[bi]]
    IN [j \in DOMAIN cf.layout.insts[mb] |-> cf.data.instructions[cf.layout.insts[mb][j]]]

\* the machine instruction comes from the prologue hook or from the
\* lowering of an alloca or phi
IsHead(mi) ==
    mi.by = 0 \/ inst_ref(cf.function, mi.by).opcode \in {"alloca", "phi"}

\* C11: compile_function creates one machine block per IR block, appended to
\* the machine layout in IR layout order: block_map is a bijection from the
\* IR blocks to the machine blocks that preserves the layout order, and the
\* preds and succs of every machine block are the images under block_map of
\* the preds and succs of its IR block.
C11_BlocksMapped ==
    Compiling =>
        LET f == cf.function
            n == Len(block_iter(f))
        IN /\ Len(cf.data.basic_blocks) = n
           /\ DOMAIN cf.block_map = Range(block_iter(f))
           /\ {cf.block_map[b] : b \in DOMAIN cf.block_map} = DOMAIN cf.data.basic_blocks
           /\ \A a, b \in DOMAIN cf.block_map : a # b => cf.block_map[a] # cf.block_map[b]
           /\ cf.layout.blocks = [j \in 1..n |-> cf.block_map[block_iter(f)[j]]]
           /\ \A b \in DOMAIN cf.block_map :
                 /\ cf.data.basic_blocks[cf.block_map[b]].preds
                       = {cf.block_map[p] : p \in f.data.basic_blocks[b].preds}
                 /\ cf.data.basic_blocks[cf.block_map[b]].succs
                       = {cf.block_map[s] : s \in f.data.basic_blocks[b].succs}

\* a function whose layout is not the arena order and whose second block is
\* its own predecessor has been compiled
C11_Witness ==
    /\ FunctionDone
    /\ block_iter(cf.function) = <<2, 1>>
    /\ 1 \in cf.function.data.basic_blocks[1].preds

\* C12 as stated: the hook is called for leading alloca and phi instructions
\* in the entry block only.
C12_HeaderInEntryOnly ==
    \A j \in DOMAIN hook_log : hook_log[j].header => hook_log[j].block = 1

\* the leading alloca and phi instructions of a block
RECURSIVE leading_header(_, _)
leading_header(function, insts) ==
    IF insts = <<>> \/ inst_ref(function, Head(insts)).opcode \notin {"alloca", "phi"}
    THEN <<>>
    ELSE <<Head(insts)>> \o leading_header(function, Tail(insts))

\* C12, amended: in every block, entry or not, the hook is called for the
\* leading alloca and phi instructions, in layout order and before the
\* reverse pass of that block; only the prologue hook is kept to the entry.
C12_HeaderInEveryBlock ==
    \A bi \in 1..Len(block_iter(IF Compiling THEN cf.function ELSE IrPrototype)) :
        HeaderDone(bi) =>
            LET T(hc) == hc.block = bi
                calls == SelectSeq(LowerCalls(TRUE), T)
            IN [j \in DOMAIN calls |-> calls[j].inst]
                  = leading_header(cf.function, inst_iter(cf.function, block_iter(cf.function)[bi]))

\* the second block of a function starts with a phi, and the function is compiled
C12_Witness ==
    /\ FunctionDone
    /\ Len(block_iter(cf.function)) = 2
    /\ \E x \in Range(inst_iter(cf.function, block_iter(cf.function)[2])) :
          /\ inst_ref(cf.function, x).opcode = "phi"
          /\ \E j \in DOMAIN hook_log : hook_log[j].inst = x /\ hook_log[j].block = 2

ir_pos(function, inst_id) ==
    IndexOf(inst_iter(function, inst_ref(function, inst_id).parent), inst_id)

\* C14: in the machine block of a lowered block, the instructions of the
\* prologue and of the header come first; after them, the instructions of a
\* hook call for i precede those of a hook call for j when i stands before j
\* in the IR block, and the instructions of one hook call are in the order
\* the hook pushed them.
C14_ForwardOrder ==
    \A bi \in 1..Len(block_iter(IF Compiling THEN cf.function ELSE IrPrototype)) :
        BlockDone(bi) =>
            LET mis == MachBlock(bi)
            IN \A p, q \in DOMAIN mis :
                  p < q =>
                      /\ IsHead(mis[q]) => IsHead(mis[p])
                      /\ (~IsHead(mis[p]) /\ ~IsHead(mis[q])) =>
                            \/ ir_pos(cf.function, mis[p].by) < ir_pos(cf.function, mis[q].by)
                            \/ mis[p].by = mis[q].by /\ mis[p].n < mis[q].n

\* a lowered block with a prologue, a hook call that pushed two machine
\* instructions and a later hook call
C14_Witness ==
    /\ BlockDone(1)
    /\ \E p, q, r \in DOMAIN MachBlock(1) :
          /\ IsHead(MachBlock(1)[p])
          /\ ~IsHead(MachBlock(1)[q])
          /\ MachBlock(1)[q].n = 2
          /\ ~IsHead(MachBlock(1)[r])
          /\ MachBlock(1)[r].by # MachBlock(1)[q].by

\* C15: copy_args_to_vregs is called for the entry block only, once for a
\* function that has a block, before every call of Lower::lower for that
\* function, and the machine instructions it pushed are the first of the
\* entry machine block.
C15_PrologueOnceFirst ==
    /\ \A j \in DOMAIN hook_log :
          IF hook_log[j].hook = "copy_args_to_vregs"
          THEN /\ hook_log[j].block = 1
               /\ \A h \in 1..(j - 1) : hook_log[h].fn # hook_log[j].fn
          ELSE \E h \in 1..(j - 1) :
                  /\ hook_log[h].fn = hook_log[j].fn
                  /\ hook_log[h].hook = "copy_args_to_vregs"
    /\ (Compiling /\ Len(block_iter(cf.function)) > 0
           /\ (cf.i > 1 \/ cf.pc \notin {"block"})) =>
          \E j \in DOMAIN hook_log :
              hook_log[j].fn = cf.fn /\ hook_log[j].hook = "copy_args_to_vregs"
    /\ BlockDone(1) =>
          /\ Len(MachBlock(1)) >= Len(cf.function.params)
          /\ \A p \in 1..Len(cf.function.params) :
                MachBlock(1)[p].by = 0 /\ MachBlock(1)[p].n = p

\* the second function of the module is compiled; its entry block starts
\* with a phi and its second block has lowered instructions
C15_Witness ==
    /\ FunctionDone
    /\ cf.fn = 2
    /\ Len(block_iter(cf.function)) = 2
    /\ Len(MachBlock(1)) > Len(cf.function.params) + 1
    /\ IsHead(MachBlock(1)[Len(cf.function.params) + 1])
    /\ Len(MachBlock(2)) > 1

\* C16: the passes run in list order, each once, after every function has
\* been compiled; a hook call or a pass that returns an error is the last
\* one made, compile_module returns the error, and there is no machine module.
C16_PassesAndErrors ==
    /\ \A j \in DOMAIN pass_log : pass_log[j].pass = j
    /\ Len(pass_log) <= NumPasses
    /\ pass_log # <<>> => (Len(functions) = Len(ir_module) /\ cf.pc = "function")
    /\ \A j \in DOMAIN hook_log :
          ~hook_log[j].ok =>
              j = Len(hook_log) /\ pass_log = <<>> /\ lower_result = "Err"
    /\ \A j \in DOMAIN pass_log :
          ~pass_log[j].ok => j = Len(pass_log) /\ lower_result = "Err"
    /\ lower_result = "Err" => ~mach_module.built
    /\ lower_result = "Ok" =>
          mach_module.built /\ mach_module.passes = [j \in 1..NumPasses |-> j]

\* both functions were compiled and the first pass returned an error
C16_Witness ==
    /\ lower_result = "Err"
    /\ Len(functions) = NumFuncs
    /\ Len(pass_log) = 1
    /\ ~pass_log[1].ok

\* C17: when compile_function returns Ok, every IR instruction of the
\* function (an alloca, which gets a stack slot, set aside) has an entry in
\* inst_id_to_vreg, or is in merged_inst, or has no result.
C17_AllLoweredOrMerged ==
    FunctionDone =>
        \A x \in DOMAIN cf.function.data.instructions :
            \/ inst_ref(cf.function, x).opcode = "alloca"
            \/ x \in DOMAIN cf.inst_id_to_vreg
            \/ x \in cf.merged_inst
            \/ is_void(inst_ref(cf.function, x).opcode)

\* what holds when compile_function returns Ok: every instruction on which a
\* hook was called has a vreg, a slot or no result, and every instruction a
\* hook folded is merged; an instruction the driver never passed to a hook
\* and no hook folded has neither
LoweredOrMergedIfReached ==
    FunctionDone =>
        \A x \in DOMAIN cf.function.data.instructions :
            LET reached == \E j \in DOMAIN hook_log :
                               /\ hook_log[j].fn = cf.fn
                               /\ hook_log[j].hook = "lower"
                               /\ x \in producers_of(cf.function, {hook_log[j].inst},
                                            Len(cf.function.data.instructions))
            IN reached <=>
                  \/ x \in DOMAIN cf.inst_id_to_vreg
                  \/ x \in DOMAIN cf.inst_id_to_slot_id
                  \/ x \in cf.merged_inst
                  \/ (is_void(inst_ref(cf.function, x).opcode) /\
                        \E j \in DOMAIN hook_log :
                            hook_log[j].fn = cf.fn /\ hook_log[j].inst = x
                               /\ hook_log[j].hook = "lower")

\* the calls of Lower::lower on instruction x for the function being compiled
LowerCallsOn(x) ==
    LET T(hc) == hc.fn = cf.fn /\ hc.hook = "lower" /\ hc.inst = x
    IN SelectSeq(hook_log, T)

\* the driver has dealt with instruction x once: one call of the hook, by the
\* header pass or by the reverse pass, or no call and one skip by the reverse pass
VisitedOnce(x) ==
    LET calls == LowerCallsOn(x)
    IN \/ Len(calls) = 1 /\ (calls[1].header <=> x \notin cf.visited)
       \/ Len(calls) = 0 /\ x \in cf.visited

\* C29: when compile_function returns Ok, every IR instruction of every block
\* was visited exactly once: passed once to Lower::lower, by the header pass
\* or by the reverse pass and never by both, or skipped once by the reverse
\* pass; none is left unvisited.
C29_EveryInstVisitedOnce ==
    FunctionDone =>
        \A bi \in DOMAIN block_iter(cf.function) :
            \A x \in Range(inst_iter(cf.function, block_iter(cf.function)[bi])) :
                VisitedOnce(x)

\* the leading alloca and phi instructions of the block, and the instructions
\* after the last alloca or phi of the block
RECURSIVE trailing_run(_, _)
trailing_run(function, insts) ==
    IF insts = <<>>
       \/ inst_ref(function, insts[Len(insts)]).opcode \in {"alloca", "phi"}
    THEN {}
    ELSE {insts[Len(insts)]} \cup trailing_run(function, SubSeq(insts, 1, Len(insts) - 1))

\* what holds when compile_function returns Ok: no instruction is visited
\* twice, and the visited ones are the leading alloca and phi instructions
\* of each block and the instructions after its last alloca or phi
LeadingAndTrailingVisitedOnce ==
    FunctionDone =>
        \A bi \in DOMAIN block_iter(cf.function) :
            LET insts == inst_iter(cf.function, block_iter(cf.function)[bi])
            IN \A x \in Range(insts) :
                  IF x \in Range(leading_header(cf.function, insts))
                            \cup trailing_run(cf.function, insts)
                  THEN VisitedOnce(x)
                  ELSE LowerCallsOn(x) = <<>> /\ x \notin cf.visited

---------------------------------------------------------------------------
(* Part 3: the module parser, core/src/ir/module/parser.rs                 *)
(*                                                                         *)
(* The input text is a sequence of tokens [t, v]: words, punctuation,      *)
(* string literals, digits, names, spaces (white space and comments), and  *)
(* one token for each type body, global variable, function and metadata    *)
(* node, parsed by code outside this file. A parser takes and returns a    *)
(* record [ok, rest, val]: whether it matched, the input left, and the     *)
(* values captured so far.                                                 *)

\* number of top-level items of an input text
MaxItems == 3

Tok(t, v) == [t |-> t, v |-> v]

\* a parser has not yet consumed anything of src
Start(src) == [ok |-> TRUE, rest |-> src, val |-> <<>>]

\* nom's Err: the parser did not match
Fail(r) == [ok |-> FALSE, rest |-> r.rest, val |-> <<>>]

\* util::spaces: skips white space and comments; it always succeeds
RECURSIVE spaces_of(_)
spaces_of(src) ==
    IF src # <<>> /\ Head(src).t = "space" THEN spaces_of(Tail(src)) ELSE src

spaces(r) == IF r.ok THEN [r EXCEPT !.rest = spaces_of(@)] ELSE r

\* nom's tag(w) and char(c): the next token is that word or character
tag(r, w) ==
    IF r.ok /\ r.rest # <<>> /\ Head(r.rest) = Tok("word", w)
    THEN [r EXCEPT !.rest = Tail(@)] ELSE Fail(r)

char(r, c) ==
    IF r.ok /\ r.rest # <<>> /\ Head(r.rest) = Tok("punct", c)
    THEN [r EXCEPT !.rest = Tail(@)] ELSE Fail(r)

\* a parser that captures the value of the next token when it is of kind t:
\* util::string_literal, nom's digit1, name::parse
capture(r, t) ==
    IF r.ok /\ r.rest # <<>> /\ Head(r.rest).t = t
    THEN [r EXCEPT !.rest = Tail(@), !.val = Append(@, Head(r.rest).v)] ELSE Fail(r)

string_literal(r) == capture(r, "str")
digit1(r) == capture(r, "digits")
name_parse(r) == capture(r, "name")

\* str::parse::<u32> for the digit strings of the model
parse_u32(digits) == IF digits = "0" THEN 0 ELSE IF digits = "1" THEN 1 ELSE 2

\* attributes::parser::parse_attributes: the attributes up to the first
\* token that is none, spaces between them skipped
RECURSIVE attributes_of(_)
attributes_of(src) ==
    LET s == spaces_of(src)
    IN IF s # <<>> /\ Head(s).t = "attr"
       THEN LET a == attributes_of(Tail(s))
            IN [rest |-> a.rest, attrs |-> <<Head(s).v>> \o a.attrs]
       ELSE [rest |-> src, attrs |-> <<>>]

parse_attributes(r) ==
    IF r.ok
    THEN [r EXCEPT !.rest = attributes_of(r.rest).rest,
                   !.val = Append(@, attributes_of(r.rest).attrs)]
    ELSE r

parse_source_filename(src) ==
    string_literal(spaces(char(spaces(tag(Start(src), "source_filename")), "=")))

\* a faulty parse_target_datalayout: the word after target is not checked
parse_target_datalayout_any(src) ==
    LET r == spaces(tag(Start(src), "target"))
        w == IF r.ok /\ r.rest # <<>> /\ Head(r.rest).t = "word"
             THEN [r EXCEPT !.rest = Tail(@)] ELSE Fail(r)
    IN string_literal(spaces(char(spaces(w), "=")))

parse_target_datalayout(src) ==
    string_literal(spaces(char(spaces(
        tag(spaces(tag(Start(src), "target")), "datalayout")), "=")))

parse_target_triple(src) ==
    string_literal(spaces(char(spaces(
        tag(spaces(tag(Start(src), "target")), "triple")), "=")))

\* val is <<id, attrs>>; the digits follow the # without spaces
parse_attribute_group(src) ==
    LET r == char(spaces(parse_attributes(spaces(char(spaces(char(spaces(
                 digit1(char(spaces(tag(Start(src), "attributes")), "#"))),
                 "=")), "{")))), "}")
    IN IF r.ok THEN [r EXCEPT !.val = <<parse_u32(r.val[1]), r.val[2]>>] ELSE r

\* Types: the named types of the interner, name -> body; the body "" is the
\* empty body of a name that is registered and not defined
empty_named_type(types, name) ==
    IF name \in DOMAIN types THEN types ELSE types @@ (name :> "")

\* named_type(name): the handle of the named type, registered as a forward
\* declaration if the interner does not have it
named_type(types, name) == empty_named_type(types, name)

change_to_named_type(types, ty, name) == [types EXCEPT ![name] = ty]

\* types::parse(source, types): the body of a type; a body that refers to a
\* named type makes sure that name is in the interner
types_parse(r, types) ==
    LET s == spaces_of(r.rest)
    IN IF r.ok /\ s # <<>> /\ Head(s).t = "ty"
       THEN [ok |-> TRUE, rest |-> Tail(s), val |-> Append(r.val, Head(s).v), types |-> types]
       ELSE IF r.ok /\ s # <<>> /\ Head(s).t = "tyref"
       THEN [ok |-> TRUE, rest |-> Tail(s), val |-> Append(r.val, "struct"),
             types |-> named_type(types, Head(s).v)]
       ELSE Fail(r) @@ [types |-> types]

\* parse_local_type(source, types): the interner is behind a shared
\* reference, so what the parser has registered stays when it fails
parse_local_type(src, types) ==
    LET n == name_parse(char(spaces(Start(src)), "%"))
        registered == empty_named_type(types, n.val[1])
        t == tag(spaces(char(spaces(n), "=")), "type")
        b == types_parse(t, registered)
    IN IF ~n.ok THEN [ok |-> FALSE, rest |-> src, types |-> types]
       ELSE IF ~t.ok THEN [ok |-> FALSE, rest |-> src, types |-> registered]
       ELSE IF ~b.ok THEN [ok |-> FALSE, rest |-> src, types |-> b.types]
       ELSE [ok |-> TRUE, rest |-> b.rest,
             types |-> change_to_named_type(b.types, b.val[2], n.val[1])]

\* global_variable::parse, function::parse and metadata::parse: each matches
\* the token of a well-formed item of its kind and fails on everything
\* else, a malformed item of its kind included
item_parse(src, kind) ==
    IF src # <<>> /\ Head(src) = Tok(kind, "ok")
    THEN [ok |-> TRUE, rest |-> Tail(src), val |-> <<kind>>]
    ELSE Fail(Start(src))

\* Module::new()
Module_new ==
    [source_filename |-> "",
     target |-> [datalayout |-> "", triple |-> ""],
     attributes |-> <<>>,
     types |-> <<>>,
     global_variables |-> <<>>,
     functions |-> <<>>,
     metas |-> <<>>]

\* the end of the loop body: todo!("unsupported syntax at {:?}", source)
parse_loop_todo(src, m) ==
    [result |-> "todo", rest |-> spaces_of(src), module |-> m]

\* one iteration of the loop of parse: the spaces are skipped, the loop ends
\* with Ok(module) at the end of the input, and otherwise the item parsers
\* are tried in order; the first that matches stores its result
parse_loop(src, m) ==
    LET s == spaces_of(src)
        sf == parse_source_filename(s)
        dl == parse_target_datalayout(s)
        tr == parse_target_triple(s)
        ag == parse_attribute_group(s)
        lt == parse_local_type(s, m.types)
        m1 == [m EXCEPT !.types = lt.types]
        gv == item_parse(s, "global")
        fn == item_parse(s, "function")
        md == item_parse(s, "metadata")
        go(rest, m2) == [result |-> "running", rest |-> rest, module |-> m2]
    IN IF s = <<>> THEN [result |-> "Ok", rest |-> s, module |-> m]
       ELSE IF sf.ok THEN go(sf.rest, [m EXCEPT !.source_filename = sf.val[1]])
       ELSE IF dl.ok THEN go(dl.rest, [m EXCEPT !.target.datalayout = dl.val[1]])
       ELSE IF tr.ok THEN go(tr.rest, [m EXCEPT !.target.triple = tr.val[1]])
       ELSE IF ag.ok
       THEN go(ag.rest,
               [m EXCEPT !.attributes =
                   [n \in DOMAIN @ \cup {ag.val[1]} |->
                       IF n = ag.val[1] THEN ag.val[2] ELSE @[n]]])
       ELSE IF lt.ok THEN go(lt.rest, m1)
       ELSE IF gv.ok THEN go(gv.rest, [m1 EXCEPT !.global_variables = Append(@, "gv")])
       ELSE IF fn.ok THEN go(fn.rest, [m1 EXCEPT !.functions = Append(@, "func")])
       ELSE IF md.ok THEN go(md.rest, [m1 EXCEPT !.metas = Append(@, "meta")])
       ELSE parse_loop_todo(s, m1)

\* the top-level items of the input texts: kind, what the item says (text,
\* id, attrs) and its tokens
Item(kind, text, id, attrs, toks) ==
    [kind |-> kind, text |-> text, id |-> id, attrs |-> attrs, toks |-> toks]

Comment == Tok("space", "comment")

Items ==
    { Item("source_filename", "a.c", 0, <<>>,
           <<Tok("word", "source_filename"), Tok("punct", "="), Tok("str", "a.c")>>),
      Item("source_filename", "b.c", 0, <<>>,
           <<Tok("word", "source_filename"), Comment, Tok("punct", "="), Comment,
             Tok("str", "b.c")>>),
      Item("datalayout", "e-m:e", 0, <<>>,
           <<Tok("word", "target"), Tok("word", "datalayout"), Tok("punct", "="),
             Tok("str", "e-m:e")>>),
      Item("triple", "x86_64", 0, <<>>,
           <<Tok("word", "target"), Comment, Tok("word", "triple"), Tok("punct", "="),
             Tok("str", "x86_64")>>),
      Item("attributes", "", 0, <<"noinline", "nounwind">>,
           <<Tok("word", "attributes"), Tok("punct", "#"), Tok("digits", "0"),
             Tok("punct", "="), Tok("punct", "{"), Tok("attr", "noinline"), Comment,
             Tok("attr", "nounwind"), Tok("punct", "}")>>),
      Item("attributes", "", 1, <<"optnone">>,
           <<Tok("word", "attributes"), Tok("punct", "#"), Tok("digits", "1"),
             Tok("punct", "="), Tok("punct", "{"), Tok("attr", "optnone"),
             Tok("punct", "}")>>),
      Item("type", "t", 0, <<>>,
           <<Tok("punct", "%"), Tok("name", "t"), Tok("punct", "="), Tok("word", "type"),
             Tok("ty", "i32")>>),
      Item("type", "o", 0, <<>>,
           <<Tok("punct", "%"), Tok("name", "o"), Tok("punct", "="), Tok("word", "type"),
             Tok("ty", "opaque")>>),
      Item("type", "s", 0, <<>>,
           <<Tok("punct", "%"), Tok("name", "s"), Tok("punct", "="), Tok("word", "type"),
             Tok("tyref", "t")>>),
      Item("bad type", "t", 0, <<>>,
           <<Tok("punct", "%"), Tok("name", "t"), Tok("punct", "="), Tok("word", "type"),
             Tok("junk", "")>>),
      Item("global", "", 0, <<>>, <<Tok("global", "ok")>>),
      Item("function", "", 0, <<>>, <<Tok("function", "ok")>>),
      Item("bad function", "", 0, <<>>, <<Tok("function", "bad")>>),
      Item("metadata", "", 0, <<>>, <<Tok("metadata", "ok")>>),
      Item("unknown", "", 0, <<>>, <<Tok("junk", "")>>),
      Item("comment", "", 0, <<>>, <<Comment>>) }

\* the text of a sequence of items: their tokens, white space between them
RECURSIVE text_of(_)
text_of(its) ==
    IF its = <<>> THEN <<>>
    ELSE Head(its).toks \o <<Tok("space", "ws")>> \o text_of(Tail(its))

\* parse(source) is called on the text of up to MaxItems items
ParseInit ==
    /\ \E n \in 0..MaxItems : \E its \in [1..n -> Items] :
          /\ input = its
          /\ source = text_of(its)
    /\ module = Module_new
    /\ parse_result = "running"
    /\ SpillIdle
    /\ LowerIdle
    /\ MoreIdle

\* one iteration of the loop of parse
ParseLoop ==
    /\ parse_result = "running"
    /\ LET r == parse_loop(source, module)
       IN /\ source' = r.rest
          /\ module' = r.module
          /\ parse_result' = r.result
    /\ UNCHANGED <<input, vars, lower_vars, more_vars>>

ParseNext == ParseLoop

SpecParse == ParseInit /\ [][ParseNext]_all_vars

---------------------------------------------------------------------------
(* Properties of the module parser *)

\* parse has returned or aborted
ParseEnded == parse_result \notin {"running", "idle"}

\* the kinds of the items that are well-formed
GoodKinds ==
    {"source_filename", "datalayout", "triple", "attributes", "type", "global",
     "function", "metadata", "comment"}

\* the text of the last item of the input of one of the kinds, "" if none
RECURSIVE last_text(_, _)
last_text(its, kind) ==
    IF its = <<>> THEN ""
    ELSE IF its[Len(its)].kind = kind THEN its[Len(its)].text
    ELSE last_text(SubSeq(its, 1, Len(its) - 1), kind)

\* the attribute list of the last attributes item of the input with id n
RECURSIVE last_attrs(_, _)
last_attrs(its, n) ==
    IF its = <<>> THEN <<>>
    ELSE IF its[Len(its)].kind = "attributes" /\ its[Len(its)].id = n
    THEN its[Len(its)].attrs
    ELSE last_attrs(SubSeq(its, 1, Len(its) - 1), n)

\* C18: parse ends with Ok(module) or with an Err value, and with an Err when
\* the input holds an unknown top-level form or a malformed item.
C18_OkOrErr ==
    ParseEnded =>
        /\ parse_result \in {"Ok", "Err"}
        /\ (\E j \in DOMAIN input : input[j].kind \notin GoodKinds) => parse_result = "Err"

\* what holds of the end of parse: Ok when all items are well-formed, and the
\* abort of todo!() at the first item that is not; no input gives an Err
OkOrTodo ==
    ParseEnded =>
        parse_result = (IF \A j \in DOMAIN input : input[j].kind \in GoodKinds
                        THEN "Ok" ELSE "todo")

\* C19: after a successful parse, source_filename, target.datalayout and
\* target.triple are the string literals of the (last) directives of the
\* input, and attributes[N] is the attribute list of (the last) attributes #N,
\* in textual order, wherever the items stand and whatever comments separate
\* them.
C19_DirectivesInAnyOrder ==
    parse_result = "Ok" =>
        /\ module.source_filename = last_text(input, "source_filename")
        /\ module.target.datalayout = last_text(input, "datalayout")
        /\ module.target.triple = last_text(input, "triple")
        /\ DOMAIN module.attributes
              = {input[j].id : j \in {h \in DOMAIN input : input[h].kind = "attributes"}}
        /\ \A n \in DOMAIN module.attributes : module.attributes[n] = last_attrs(input, n)

\* the triple stands before the datalayout and after a function, and an
\* attribute group is last
C19_Witness ==
    /\ parse_result = "Ok"
    /\ Len(input) = 3
    /\ input[1].kind = "triple"
    /\ input[2].kind = "datalayout"
    /\ input[3].kind = "attributes"
    /\ input[3].id = 1

\* C20: after a successful parse no named type of the interner has an empty
\* body (a type declared opaque has the body opaque).
C20_NoEmptyNamedType ==
    parse_result = "Ok" => \A n \in DOMAIN module.types : module.types[n] # ""

\* what holds of the named types: after a successful parse the named types
\* with an empty body are those a type body refers to and no item defines;
\* and parse_local_type follows the two-phase protocol: a name whose
\* definition fails to parse is in the interner when parse aborts
NamedTypesTwoPhase ==
    /\ parse_result = "Ok" =>
          \A n \in DOMAIN module.types :
              module.types[n] = "" <=> \A j \in DOMAIN input : ~(input[j].kind = "type" /\ input[j].text = n)
    /\ ParseEnded =>
          \A j \in DOMAIN input :
              (input[j].kind \in {"type", "bad type"}
                  /\ \A h \in 1..(j - 1) : input[h].kind \in GoodKinds)
              => input[j].text \in DOMAIN module.types

---------------------------------------------------------------------------
(* Part 4: the VRegs registry on its own, src/codegen/register/mod.rs      *)
(*                                                                         *)
(* Any caller may create vregs and change their types, in any order; VReg  *)
(* is a public tuple struct, so change_ty may also be called with a VReg   *)
(* the registry never returned.                                            *)

\* number of calls made on the registry in one run; cur, a u32 in the code,
\* stays below this bound
MaxRegCalls == 4

\* the type handles the callers pass
RegTypes == {"i32", "i64"}

\* the record of one call: the vreg it returned (add_vreg_data) or was given
\* (change_ty), the type it was given, and whether it panicked
RegCall(op, vreg, ty, panic) == [op |-> op, vreg |-> vreg, ty |-> ty, panic |-> panic]

\* the process is gone once a call has panicked
RegPanicked == reg_calls # <<>> /\ reg_calls[Len(reg_calls)].panic

RegInit ==
    /\ registry = VRegs_new
    /\ reg_calls = <<>>
    /\ reg_before = VRegs_new
    /\ SpillIdle
    /\ LowerIdle
    /\ ParseIdle
    /\ ConstIdle
    /\ InterpIdle
    /\ PrintIdle

\* one call registry.add_vreg_data(ty); it returns the key VReg(cur)
AddVRegData(ty) ==
    /\ ~RegPanicked
    /\ Len(reg_calls) < MaxRegCalls
    /\ registry' = add_vreg_data(registry, ty)
    /\ reg_calls' = Append(reg_calls, RegCall("add_vreg_data", registry.cur, ty, FALSE))
    /\ reg_before' = registry
    /\ UNCHANGED <<vars, lower_vars, parse_vars, const_vars, interp_vars, print_vars>>

\* one call registry.change_ty(vreg, ty); get_mut(&vreg).unwrap() panics for
\* a vreg that is not in the map
ChangeTy(vreg, ty) ==
    /\ ~RegPanicked
    /\ Len(reg_calls) < MaxRegCalls
    /\ IF vreg \in DOMAIN registry.map
       THEN /\ registry' = change_ty(registry, vreg, ty)
            /\ reg_calls' = Append(reg_calls, RegCall("change_ty", vreg, ty, FALSE))
       ELSE /\ registry' = registry
            /\ reg_calls' = Append(reg_calls, RegCall("change_ty", vreg, ty, TRUE))
    /\ reg_before' = registry
    /\ UNCHANGED <<vars, lower_vars, parse_vars, const_vars, interp_vars, print_vars>>

RegNext ==
    \/ \E ty \in RegTypes : AddVRegData(ty)
    \/ \E vreg \in 0..(MaxRegCalls - 1), ty \in RegTypes : ChangeTy(vreg, ty)

SpecVRegs == RegInit /\ [][RegNext]_all_vars

---------------------------------------------------------------------------
(* Properties of the registry *)

\* the calls of add_vreg_data made so far
AddCalls == SelectSeq(reg_calls, LAMBDA rc : rc.op = "add_vreg_data")

\* the type vreg was given at its creation or by the latest change_ty(vreg, ..)
latest_ty(vreg) ==
    LET S == {j \in DOMAIN reg_calls : reg_calls[j].vreg = vreg /\ ~reg_calls[j].panic}
        last == CHOOSE j \in S : \A h \in S : h <= j
    IN reg_calls[last].ty

\* C30: after any sequence of add_vreg_data and change_ty calls, the k-th
\* add_vreg_data returned the id k - 1 (so no id was returned twice), map holds
\* exactly cur entries, the entry of key k has vreg = k, type_for(v) is the
\* type given at creation or by the latest change_ty(v, ..), and the last
\* call, if a change_ty(v, ..), left cur and the type of every other vreg as
\* they were.
C30_RegistryInvariant ==
    /\ \A j \in DOMAIN AddCalls : AddCalls[j].vreg = j - 1
    /\ registry.cur = Len(AddCalls)
    /\ DOMAIN registry.map = 0..(registry.cur - 1)
    /\ \A k \in DOMAIN registry.map : registry.map[k].vreg = k
    /\ \A v \in DOMAIN registry.map : type_for(registry, v) = latest_ty(v)
    /\ (reg_calls # <<>> /\ reg_calls[Len(reg_calls)].op = "change_ty") =>
          /\ registry.cur = reg_before.cur
          /\ DOMAIN registry.map = DOMAIN reg_before.map
          /\ \A w \in DOMAIN registry.map \ {reg_calls[Len(reg_calls)].vreg} :
                type_for(registry, w) = type_for(reg_before, w)

\* three vregs were created, and the type of the first one was changed after
\* the creation of the second
C30_Witness ==
    /\ Len(AddCalls) = 3
    /\ \E j \in DOMAIN reg_calls :
          /\ reg_calls[j].op = "change_ty"
          /\ reg_calls[j].vreg = 0
          /\ ~reg_calls[j].panic
          /\ j > 2
          /\ reg_calls[j].ty # reg_calls[1].ty

---------------------------------------------------------------------------
(* Part 5: the constant parser, core/src/ir/value/parser.rs                *)
(*                                                                         *)
(* The text is a sequence of tokens as in Part 3. A constant parser        *)
(* returns a record [res, rest, val]: res is "Ok" or "Err" (nom's Err),    *)
(* or names the panic that ended the call, or is "hang" when the call      *)
(* does not return; val is the constant, a record with its kind in k.      *)

\* number of `type constant` operands of a getelementptr text
MaxGepOperands == 3

\* number of iterations of the operand loop that one run follows
MaxGepIters == 5

KOk(rest, val) == [res |-> "Ok", rest |-> rest, val |-> val]
KErr == [res |-> "Err", rest |-> <<>>, val |-> [k |-> "none"]]
KEnd(what) == [res |-> what, rest |-> <<>>, val |-> [k |-> "none"]]

\* the characters of the digit strings of the model
DigitsOf ==
    [lit \in {"0", "007", "127", "128", "129", "2147483647", "2147483648",
              "9223372036854775807", "9223372036854775808"} |->
        CASE lit = "0" -> <<0>>
          [] lit = "007" -> <<0, 0, 7>>
          [] lit = "127" -> <<1, 2, 7>>
          [] lit = "128" -> <<1, 2, 8>>
          [] lit = "129" -> <<1, 2, 9>>
          [] lit = "2147483647" -> <<2, 1, 4, 7, 4, 8, 3, 6, 4, 7>>
          [] lit = "2147483648" -> <<2, 1, 4, 7, 4, 8, 3, 6, 4, 8>>
          [] lit = "9223372036854775807" ->
                <<9, 2, 2, 3, 3, 7, 2, 0, 3, 6, 8, 5, 4, 7, 7, 5, 8, 0, 7>>
          [] lit = "9223372036854775808" ->
                <<9, 2, 2, 3, 3, 7, 2, 0, 3, 6, 8, 5, 4, 7, 7, 5, 8, 0, 8>>]

\* a decimal number without its leading zeros
RECURSIVE strip_zeros(_)
strip_zeros(d) == IF Len(d) > 1 /\ Head(d) = 0 THEN strip_zeros(Tail(d)) ELSE d

\* 2^(N-1) as a decimal number, for the widths of ConstantInt
int_limit(bits) ==
    CASE bits = 8 -> <<1, 2, 8>>
      [] bits = 32 -> <<2, 1, 4, 7, 4, 8, 3, 6, 4, 8>>
      [] bits = 64 -> <<9, 2, 2, 3, 3, 7, 2, 0, 3, 6, 8, 5, 4, 7, 7, 5, 8, 0, 8>>

\* a < b, for decimal numbers without leading zeros
RECURSIVE digits_less(_, _)
digits_less(a, b) ==
    IF Len(a) # Len(b) THEN Len(a) < Len(b)
    ELSE IF a = <<>> THEN FALSE
    ELSE IF Head(a) # Head(b) THEN Head(a) < Head(b)
    ELSE digits_less(Tail(a), Tail(b))

\* str::parse::<iN> of the text num = [neg, lit]: an optional '-' and a
\* digit string or a word; the number if it is in -2^(N-1) .. 2^(N-1) - 1,
\* and otherwise the Err the caller unwraps
parse_int(num, bits) ==
    LET mag == strip_zeros(DigitsOf[num.lit])
        limit == int_limit(bits)
    IN IF num.lit \notin DOMAIN DigitsOf THEN [ok |-> FALSE]
       ELSE IF digits_less(mag, limit) \/ (num.neg /\ mag = limit)
       THEN [ok |-> TRUE, neg |-> num.neg /\ mag # <<0>>, mag |-> mag]
       ELSE [ok |-> FALSE]

\* parse_constant_int(source, ty): the literal is recognized first, and then
\* read as a number of the requested type
parse_constant_int(src, ty) ==
    LET m == char(spaces(Start(src)), "-")
        s == IF m.ok THEN m ELSE spaces(Start(src))
        d == digit1(s)
        t == tag(s, "true")
        f == tag(s, "false")
        r == IF d.ok THEN d ELSE IF t.ok THEN t ELSE f
        num == [neg |-> m.ok,
                lit |-> IF d.ok THEN d.val[1] ELSE IF t.ok THEN "true" ELSE "false"]
        bits == IF ty = "i8" THEN 8 ELSE IF ty = "i32" THEN 32 ELSE 64
        n == parse_int(num, bits)
    IN IF ~r.ok THEN KErr
       ELSE IF ty = "i1"
       THEN KOk(r.rest, [k |-> "Int1", b |-> (~num.neg /\ num.lit = "true")])
       ELSE IF ty \in {"i8", "i32", "i64"}
       THEN IF n.ok
            THEN KOk(r.rest, [k |-> "Int", bits |-> bits, neg |-> n.neg, mag |-> n.mag])
            ELSE KEnd("panic unwrap")
       ELSE KEnd("panic todo")

\* the bytes of the string literals of the model, and a byte `as i8`
StrBytes == [str \in {"ab", "e_acute"} |-> IF str = "ab" THEN <<97, 98>> ELSE <<195, 169>>]
as_i8(byte) == IF byte >= 128 THEN byte - 256 ELSE byte

\* parse_constant_array(source, types): c"..." only
parse_constant_array(src) ==
    LET r == string_literal(spaces(char(spaces(Start(src)), "c")))
    IN IF ~r.ok THEN KErr
       ELSE KOk(r.rest,
                [k |-> "Array", elem_ty |-> "i8", is_string |-> TRUE,
                 elems |-> [j \in DOMAIN StrBytes[r.val[1]] |->
                               [k |-> "Int", bits |-> 8,
                                neg |-> as_i8(StrBytes[r.val[1]][j]) < 0,
                                mag |-> IF as_i8(StrBytes[r.val[1]][j]) < 0
                                        THEN 0 - as_i8(StrBytes[r.val[1]][j])
                                        ELSE as_i8(StrBytes[r.val[1]][j])]]])

\* parse_constant_global_ref(source)
parse_constant_global_ref(src) ==
    LET r == name_parse(char(spaces(Start(src)), "@"))
    IN IF r.ok THEN KOk(r.rest, [k |-> "GlobalRef", name |-> r.val[1]]) ELSE KErr

\* `if let Ok(..) = r { return .. }`, else the next alternative; a panic or
\* a hang of r ends the call
or_else(r, next_alternative) == IF r.res # "Err" THEN r ELSE next_alternative

RECURSIVE parse_constant(_, _)

\* the loop of parse_constant_struct, from an operand on: after the operand
\* a comma continues the loop, and otherwise the closing bracket is required
RECURSIVE struct_loop(_, _)
struct_loop(st, src) ==
    LET t == types_parse(Start(src), <<>>)
        after(konst) ==
            LET elems == Append(st.elems, konst.val)
                elems_ty == Append(st.elems_ty, t.val[1])
                comma == char(spaces(Start(konst.rest)), ",")
                close == char(spaces(Start(konst.rest)), IF st.is_packed THEN "}>" ELSE "}")
            IN IF konst.res # "Ok" THEN konst
               ELSE IF comma.ok
               THEN struct_loop([st EXCEPT !.elems = elems, !.elems_ty = elems_ty], comma.rest)
               ELSE IF ~close.ok THEN KErr
               ELSE KOk(close.rest, [k |-> "Struct", elems_ty |-> elems_ty, elems |-> elems,
                                     is_packed |-> st.is_packed])
    IN IF ~t.ok THEN KErr
       ELSE after(parse_constant(t.rest, t.val[1]))

\* parse_constant_struct(source, types)
parse_constant_struct(src) ==
    LET open == char(spaces(Start(src)), "{")
        packed == char(spaces(Start(src)), "<{")
        bracket == IF open.ok THEN open ELSE packed
    IN IF bracket.ok
       THEN struct_loop([elems |-> <<>>, elems_ty |-> <<>>, is_packed |-> ~open.ok],
                        bracket.rest)
       ELSE KErr

\* parse_constant_bitcast(source, types)
parse_constant_bitcast(src) ==
    LET from == types_parse(char(spaces(tag(spaces(Start(src)), "bitcast")), "("), <<>>)
        after(arg) ==
            LET to == types_parse(tag(spaces(Start(arg.rest)), "to"), <<>>)
                close == char(spaces(to), ")")
            IN IF arg.res # "Ok" THEN arg
               ELSE IF ~close.ok THEN KErr
               ELSE KOk(close.rest, [k |-> "Expr", e |-> "Bitcast",
                                     tys |-> <<from.val[1], to.val[1]>>, arg |-> arg.val])
    IN IF ~from.ok THEN KErr
       ELSE after(parse_constant(from.rest, from.val[1]))

\* parse_constant_getelementptr up to its loop: the keyword, the optional
\* inbounds, the parenthesis, the first type and the comma; the locals of
\* the loop are source, inbounds, args and tys
gep_begin(src) ==
    LET g == tag(spaces(Start(src)), "getelementptr")
        i == tag(spaces(g), "inbounds")
        ty == types_parse(char(spaces(IF i.ok THEN i ELSE g), "("), <<>>)
        comma == char(spaces(ty), ",")
    IN IF ~comma.ok THEN KErr
       ELSE [res |-> "loop", source |-> comma.rest, inbounds |-> i.ok,
             args |-> <<>>, tys |-> <<ty.val[1]>>]

\* a faulty operand loop: the arguments are collected in reverse order
gep_step_args_reversed(st) ==
    LET ty == types_parse(Start(st.source), <<>>)
        after(arg) ==
            LET tys == Append(st.tys, ty.val[1])
                args == <<arg.val>> \o st.args
                comma == char(spaces(Start(arg.rest)), ",")
                close == char(spaces(Start(arg.rest)), ")")
            IN IF arg.res # "Ok" THEN arg
               ELSE IF comma.ok
               THEN [st EXCEPT !.source = comma.rest, !.tys = tys, !.args = args]
               ELSE IF close.ok
               THEN KOk(close.rest, [k |-> "Expr", e |-> "GetElementPtr",
                                     inbounds |-> st.inbounds, tys |-> tys, args |-> args])
               ELSE [st EXCEPT !.tys = tys, !.args = args]
    IN IF ~ty.ok THEN KErr
       ELSE after(parse_constant(ty.rest, ty.val[1]))

\* one iteration of the operand loop of parse_constant_getelementptr: a
\* type and a constant are parsed from source and pushed; after a comma the
\* loop continues behind it, after a parenthesis the call returns, and
\* otherwise the loop continues with source as it was
gep_step(st) ==
    LET ty == types_parse(Start(st.source), <<>>)
        after(arg) ==
            LET tys == Append(st.tys, ty.val[1])
                args == Append(st.args, arg.val)
                comma == char(spaces(Start(arg.rest)), ",")
                close == char(spaces(Start(arg.rest)), ")")
            IN IF arg.res # "Ok" THEN arg
               ELSE IF comma.ok
               THEN [st EXCEPT !.source = comma.rest, !.tys = tys, !.args = args]
               ELSE IF close.ok
               THEN KOk(close.rest, [k |-> "Expr", e |-> "GetElementPtr",
                                     inbounds |-> st.inbounds, tys |-> tys, args |-> args])
               ELSE [st EXCEPT !.tys = tys, !.args = args]
    IN IF ~ty.ok THEN KErr
       ELSE after(parse_constant(ty.rest, ty.val[1]))

\* the operand loop as a whole: an iteration that neither returns nor moves
\* source is repeated for ever, and the call does not return
RECURSIVE gep_loop(_)
gep_loop(st) ==
    LET after(n) ==
            IF n.res # "loop" THEN n
            ELSE IF n.source = st.source THEN KEnd("hang")
            ELSE gep_loop(n)
    IN after(gep_step(st))

\* parse_constant_getelementptr(source, types)
parse_constant_getelementptr(src) ==
    LET b == gep_begin(src)
    IN IF b.res = "loop" THEN gep_loop(b) ELSE b

\* parse_constant_expr(source, types)
parse_constant_expr(src) ==
    or_else(parse_constant_getelementptr(src), parse_constant_bitcast(src))

\* parse_constant(source, types, ty): the alternatives in the order of the
\* code; a panic or a hang of an alternative ends the call
parse_constant(src, ty) ==
    LET undef == tag(spaces(Start(src)), "undef")
        null == tag(spaces(Start(src)), "null")
        zero == tag(spaces(Start(src)), "zeroinitializer")
    IN IF undef.ok THEN KOk(undef.rest, [k |-> "Undef"])
       ELSE IF null.ok THEN KOk(null.rest, [k |-> "Null"])
       ELSE IF zero.ok THEN KOk(zero.rest, [k |-> "AggregateZero"])
       ELSE or_else(parse_constant_int(src, ty),
            or_else(parse_constant_array(src),
            or_else(parse_constant_global_ref(src),
            or_else(parse_constant_struct(src),
                    parse_constant_expr(src)))))

---------------------------------------------------------------------------
(* The texts the constant parsers are called on *)

Sp == Tok("space", " ")

\* the text of a nested getelementptr and of a nested bitcast
NestedGep ==
    <<Tok("word", "getelementptr"), Sp, Tok("punct", "("), Tok("ty", "i8"),
      Tok("punct", ","), Sp, Tok("ty", "i8*"), Sp, Tok("punct", "@"), Tok("name", "p"),
      Tok("punct", ","), Sp, Tok("ty", "i64"), Sp, Tok("digits", "007"), Tok("punct", ")")>>

NestedBitcast ==
    <<Tok("word", "bitcast"), Sp, Tok("punct", "("), Tok("ty", "i32*"), Sp,
      Tok("punct", "@"), Tok("name", "g"), Sp, Tok("word", "to"), Sp, Tok("ty", "i8*"),
      Tok("punct", ")")>>

\* the `type constant` operands of the getelementptr texts: the tokens, the
\* type and the constant they stand for
OperandList ==
    << [toks |-> <<Tok("ty", "i32"), Sp, Tok("digits", "0")>>,
        ty |-> "i32",
        val |-> [k |-> "Int", bits |-> 32, neg |-> FALSE, mag |-> <<0>>]],
       [toks |-> <<Tok("ty", "[14 x i8]*"), Sp, Tok("punct", "@"), Tok("name", "msg")>>,
        ty |-> "[14 x i8]*",
        val |-> [k |-> "GlobalRef", name |-> "msg"]],
       [toks |-> <<Tok("ty", "i8*"), Sp>> \o NestedBitcast,
        ty |-> "i8*",
        val |-> [k |-> "Expr", e |-> "Bitcast", tys |-> <<"i32*", "i8*">>,
                 arg |-> [k |-> "GlobalRef", name |-> "g"]]],
       [toks |-> <<Tok("ty", "i8*"), Sp>> \o NestedGep,
        ty |-> "i8*",
        val |-> [k |-> "Expr", e |-> "GetElementPtr", inbounds |-> FALSE,
                 tys |-> <<"i8", "i8*", "i64">>,
                 args |-> << [k |-> "GlobalRef", name |-> "p"],
                             [k |-> "Int", bits |-> 64, neg |-> FALSE, mag |-> <<7>>] >>]] >>

\* the operands ops, separated by commas
RECURSIVE operands_text(_)
operands_text(ops) ==
    IF ops = <<>> THEN <<>>
    ELSE OperandList[Head(ops)].toks
            \o (IF Tail(ops) = <<>> THEN <<>> ELSE <<Tok("punct", ","), Sp>>)
            \o operands_text(Tail(ops))

\* what follows the last operand: the closing parenthesis, another bracket,
\* a comma and the end of the text, or the end of the text
GepEnds == {")", "}", ",", ""}

\* getelementptr [inbounds] ([14 x i8], operands and what follows them
GepText(inbounds, ops, end) ==
    <<Tok("word", "getelementptr")>>
        \o (IF inbounds THEN <<Sp, Tok("word", "inbounds")>> ELSE <<>>)
        \o <<Sp, Tok("punct", "("), Tok("ty", "[14 x i8]"), Tok("punct", ","), Sp>>
        \o operands_text(ops)
        \o (IF end = "" THEN <<>> ELSE <<Tok("punct", end)>>)

\* an input of a constant parser: the text, the requested type, and what
\* the text was built from
ConstInput(kind, src, ty, neg, lit, inbounds, ops, end) ==
    [kind |-> kind, src |-> src, ty |-> ty, neg |-> neg, lit |-> lit,
     inbounds |-> inbounds, ops |-> ops, end |-> end]

\* an optional '-' and a digit string or a word, for each type
IntInputs ==
    { ConstInput("int",
                 (IF neg THEN <<Tok("punct", "-")>> ELSE <<>>)
                    \o <<IF lit \in DOMAIN DigitsOf THEN Tok("digits", lit) ELSE Tok("word", lit)>>,
                 ty, neg, lit, FALSE, <<>>, "") :
        neg \in BOOLEAN, lit \in DOMAIN DigitsOf \cup {"true", "false"},
        ty \in {"i1", "i8", "i16", "i32", "i64"} }

GepInputs ==
    { ConstInput("gep", GepText(inbounds, ops, end), "i8*", FALSE, "", inbounds, ops, end) :
        inbounds \in BOOLEAN,
        ops \in UNION {[1..n -> DOMAIN OperandList] : n \in 1..MaxGepOperands},
        end \in GepEnds }

\* undef, null, zeroinitializer, strings, a global, structs and a bitcast
OtherInputs ==
    { ConstInput("other", src, "i8*", FALSE, "", FALSE, <<>>, "") :
        src \in { <<Sp, Tok("word", "undef")>>,
                  <<Tok("word", "null")>>,
                  <<Tok("word", "zeroinitializer")>>,
                  <<Tok("punct", "c"), Tok("str", "ab")>>,
                  <<Tok("punct", "c"), Tok("str", "e_acute")>>,
                  <<Tok("punct", "@"), Tok("name", "x")>>,
                  <<Tok("punct", "{"), Sp>> \o operands_text(<<1, 4>>) \o <<Sp, Tok("punct", "}")>>,
                  <<Tok("punct", "<{"), Sp>> \o operands_text(<<2>>) \o <<Sp, Tok("punct", "}>")>>,
                  <<Tok("punct", "{"), Sp>> \o operands_text(<<1>>) \o <<Tok("punct", ")")>>,
                  NestedBitcast } }

ConstInputs == IntInputs \cup GepInputs \cup OtherInputs

ConstInit ==
    /\ ktext \in ConstInputs
    /\ kst = [pc |-> "start"]
    /\ SpillIdle
    /\ LowerIdle
    /\ ParseIdle
    /\ RegIdle
    /\ InterpIdle
    /\ PrintIdle

\* a call parse_constant_int(text, ty)
ParseConstantInt ==
    /\ kst.pc = "start"
    /\ kst' = [pc |-> "int done", result |-> parse_constant_int(ktext.src, ktext.ty)]
    /\ UNCHANGED <<ktext, vars, lower_vars, parse_vars, reg_vars, interp_vars, print_vars>>

\* a call parse_constant(text, types, ty)
ParseConstant ==
    /\ kst.pc = "start"
    /\ kst' = [pc |-> "constant done", result |-> parse_constant(ktext.src, ktext.ty)]
    /\ UNCHANGED <<ktext, vars, lower_vars, parse_vars, reg_vars, interp_vars, print_vars>>

\* a call parse_constant_getelementptr(text, types), up to its loop
GepBegin ==
    /\ kst.pc = "start"
    /\ LET b == gep_begin(ktext.src)
       IN kst' = IF b.res = "loop" THEN [pc |-> "gep", loop |-> b, iters |-> 0]
                 ELSE [pc |-> "gep done", result |-> b]
    /\ UNCHANGED <<ktext, vars, lower_vars, parse_vars, reg_vars, interp_vars, print_vars>>

\* one iteration of the loop of that call
GepStep ==
    /\ kst.pc = "gep"
    /\ kst.iters < MaxGepIters
    /\ LET n == gep_step(kst.loop)
       IN kst' = IF n.res = "loop" THEN [pc |-> "gep", loop |-> n, iters |-> kst.iters + 1]
                 ELSE [pc |-> "gep done", result |-> n]
    /\ UNCHANGED <<ktext, vars, lower_vars, parse_vars, reg_vars, interp_vars, print_vars>>

ConstNext == ParseConstantInt \/ ParseConstant \/ GepBegin \/ GepStep

SpecConst == ConstInit /\ [][ConstNext]_all_vars

---------------------------------------------------------------------------
(* Properties of the constant parser *)

\* the digit strings of the model that are too large for the type
TooLarge(neg, lit, ty) ==
    LET over64 == {"9223372036854775808"}
        over32 == {"2147483648"}
        above32 == {"9223372036854775807"} \cup over64
        above8 == {"129", "2147483647"} \cup over32 \cup above32
    IN \/ ty = "i8" /\ (lit \in above8 \/ (lit = "128" /\ ~neg))
       \/ ty = "i32" /\ (lit \in above32 \/ (lit \in over32 /\ ~neg))
       \/ ty = "i64" /\ lit \in over64 /\ ~neg

\* parse_constant_int was called on an integer literal that does not fit the
\* requested type
NotFitting ==
    /\ kst.pc = "int done"
    /\ ktext.kind = "int"
    /\ ktext.lit \in DOMAIN DigitsOf
    /\ \/ ktext.ty \notin {"i1", "i8", "i32", "i64"}
       \/ TooLarge(ktext.neg, ktext.lit, ktext.ty)

\* C21: parse_constant_int, given an integer literal that does not fit the
\* requested type (out of range for i8, i32 or i64, or a type other than i1,
\* i8, i32 and i64), returns the error TypeMismatch.
C21_NotFittingIsTypeMismatch ==
    NotFitting => kst.result.res = "TypeMismatch"

\* what holds of parse_constant_int: a literal out of range panics at the
\* unwrap, any literal of another type panics at todo!(), and a literal in
\* range is the constant of that value, leading zeros and the sign of zero
\* dropped
IntLiteralsPanicOrFit ==
    (kst.pc = "int done" /\ ktext.kind = "int" /\ ktext.lit \in DOMAIN DigitsOf) =>
        IF ktext.ty \notin {"i1", "i8", "i32", "i64"}
        THEN kst.result.res = "panic todo"
        ELSE IF TooLarge(ktext.neg, ktext.lit, ktext.ty)
        THEN kst.result.res = "panic unwrap"
        ELSE /\ kst.result.res = "Ok"
             /\ kst.result.rest = <<>>
             /\ ktext.ty # "i1" =>
                   /\ kst.result.val.mag = strip_zeros(DigitsOf[ktext.lit])
                   /\ kst.result.val.neg = (ktext.neg /\ ktext.lit \notin {"0"})

\* parse_constant was called on getelementptr [inbounds] (T, T1 c1, ..., Tn cn)
GepParsed ==
    /\ kst.pc = "constant done"
    /\ ktext.kind = "gep"
    /\ ktext.end = ")"

\* that text is `getelementptr inbounds ([14 x i8], [14 x i8]* @msg, i32 0, i32 0)`
GepExample == GepParsed /\ ktext.inbounds /\ ktext.ops = <<2, 1, 1>>

C27_GepLoopAdvances ==
    [][(kst.pc = "gep" /\ kst'.pc = "gep") =>
          Len(kst'.loop.source) < Len(kst.loop.source)]_all_vars

\* what holds of the loop: an operand followed by a comma moves the input
\* forward; an operand followed by neither a comma nor a parenthesis leaves
\* the input where it was, the operand is parsed and pushed again in every
\* iteration, and the call does not return; parse_constant_struct returns
\* an error in that case
GepLoopRepeatsOperand ==
    /\ (kst.pc = "gep" /\ kst.iters > 0 /\ ktext.kind = "gep") =>
          IF kst.iters < Len(ktext.ops) \/ ktext.end = ","
          THEN Len(kst.loop.args) = kst.iters
          ELSE /\ ktext.end \in {"}", ""}
               /\ Len(kst.loop.args) = kst.iters
               /\ kst.iters >= Len(ktext.ops)
               /\ gep_step(kst.loop).res = "loop"
               /\ gep_step(kst.loop).source = kst.loop.source
    /\ (kst.pc = "constant done" /\ ktext.kind = "gep") =>
          kst.result.res = (CASE ktext.end = ")" -> "Ok"
                              [] ktext.end = "," -> "Err"
                              [] OTHER -> "hang")
    /\ (kst.pc = "constant done" /\ ktext.kind = "other"
           /\ ktext.src[Len(ktext.src)] = Tok("punct", ")")
           /\ Head(ktext.src) = Tok("punct", "{")) =>
          kst.result.res = "Err"

---------------------------------------------------------------------------
(***************************************************************************)
(* Part 6: the interpreter driver, interpreter/examples/interpreter.rs     *)
(*                                                                         *)
(* The driver runs `main` and exits with a code computed from what         *)
(* run_function returned. A 64-bit integer is a sequence of four 16-bit    *)
(* limbs, least significant first, so that no value leaves the range of    *)
(* the checker's integers; an i32 is an integer.                           *)
(***************************************************************************)

\* a GenericValue, or the None of the Option run_function returns
GV(k, v, limbs) == [k |-> k, v |-> v, limbs |-> limbs]

ZeroLimbs == <<0, 0, 0, 0>>

\* the values a limb takes in the runs
LimbChoices == {0, 1, 32767, 32768, 65535}

Int8Values == {-128, -1, 0, 1, 127}

Int32Values == {-2147483647 - 1, -65536, -1, 0, 1, 65535, 65536, 2147483647}

\* what run_function(&ctx, main, vec![]) can return
RunResults ==
    {GV("None", 0, ZeroLimbs), GV("Void", 0, ZeroLimbs), GV("Ptr", 0, ZeroLimbs)}
    \cup {GV("Int8", v, ZeroLimbs) : v \in Int8Values}
    \cup {GV("Int32", v, ZeroLimbs) : v \in Int32Values}
    \cup {GV("Int64", 0, <<a, b, c, d>>) : a \in LimbChoices, b \in LimbChoices,
                                           c \in LimbChoices, d \in LimbChoices}

\* the i64 a narrower signed integer widens to
sext_limbs(v) ==
    LET hi == IF v < 0 THEN 65535 ELSE 0
    IN  <<v % 65536, (v \div 65536) % 65536, hi, hi>>

\* GenericValue::sext_to_i64 : Option<i64>
sext_to_i64(gv) ==
    CASE gv.k \in {"Int8", "Int32"} -> [some |-> TRUE, limbs |-> sext_limbs(gv.v)]
      [] gv.k = "Int64"             -> [some |-> TRUE, limbs |-> gv.limbs]
      [] OTHER                      -> [some |-> FALSE, limbs |-> ZeroLimbs]

\* Option::unwrap_or(0)
unwrap_or_0(opt) == IF opt.some THEN opt.limbs ELSE ZeroLimbs

\* a cast that clamps to the range of i32 instead of truncating
as_i32_saturating(limbs) ==
    LET fits_pos == limbs[4] = 0 /\ limbs[3] = 0 /\ limbs[2] < 32768
        fits_neg == limbs[4] = 65535 /\ limbs[3] = 65535 /\ limbs[2] >= 32768
    IN  IF fits_pos THEN limbs[2] * 65536 + limbs[1]
        ELSE IF fits_neg THEN (limbs[2] - 65536) * 65536 + limbs[1]
        ELSE IF limbs[4] >= 32768 THEN -2147483647 - 1
        ELSE 2147483647

\* `x as i32` of an i64: the low 32 bits, read as a signed number
as_i32(limbs) ==
    (IF limbs[2] >= 32768 THEN limbs[2] - 65536 ELSE limbs[2]) * 65536 + limbs[1]

InterpInit ==
    /\ main_ret \in RunResults
    /\ drv = [pc |-> "returned"]
    /\ SpillIdle
    /\ LowerIdle
    /\ ParseIdle
    /\ RegIdle
    /\ ConstIdle
    /\ PrintIdle

\* ret.expect("unknown error")
Expect ==
    /\ drv.pc = "returned"
    /\ drv' = IF main_ret.k = "None" THEN [pc |-> "panic unknown error"]
              ELSE [pc |-> "value"]
    /\ UNCHANGED <<main_ret, vars, lower_vars, parse_vars, reg_vars, const_vars, print_vars>>

\* .sext_to_i64()
SextToI64 ==
    /\ drv.pc = "value"
    /\ drv' = [pc |-> "option", opt |-> sext_to_i64(main_ret)]
    /\ UNCHANGED <<main_ret, vars, lower_vars, parse_vars, reg_vars, const_vars, print_vars>>

\* process::exit(... .unwrap_or(0) as i32)
Exit ==
    /\ drv.pc = "option"
    /\ drv' = [pc |-> "exited", code |-> as_i32(unwrap_or_0(drv.opt))]
    /\ UNCHANGED <<main_ret, vars, lower_vars, parse_vars, reg_vars, const_vars, print_vars>>

InterpNext == Expect \/ SextToI64 \/ Exit

SpecInterp == InterpInit /\ [][InterpNext]_all_vars

Exited == drv.pc = "exited"

IsInteger(gv) == gv.k \in {"Int8", "Int32", "Int64"}

\* code is an i32 whose two's complement bits are the two low limbs
IsLow32Of(code, limbs) ==
    /\ -2147483647 - 1 <= code
    /\ code <= 2147483647
    /\ code % 65536 = limbs[1]
    /\ (code \div 65536) % 65536 = limbs[2]

\* C26: the driver exits with the low 32 bits, read as an i32, of the
\* sign-extended 64-bit integer `main` returned, and with 0 when the
\* returned value is not an integer
C26_ExitCode ==
    Exited =>
        CASE main_ret.k \in {"Int8", "Int32"} -> drv.code = main_ret.v
          [] main_ret.k = "Int64"             -> IsLow32Of(drv.code, main_ret.limbs)
          [] OTHER                            -> drv.code = 0

\* `main` returned an i64 outside the range of i32 whose low half has the
\* sign bit set, and the driver has exited
C26_Witness ==
    /\ Exited
    /\ main_ret.k = "Int64"
    /\ main_ret.limbs[3] = 1
    /\ main_ret.limbs[4] = 0
    /\ main_ret.limbs[2] >= 32768
    /\ drv.code < 0

\* run_function returned None: the expect panics, the driver does not exit
\* through process::exit
NoneNeverExits == main_ret.k = "None" => ~Exited

---------------------------------------------------------------------------
(***************************************************************************)
(* Part 7: the function printer, core/src/ir/function/print.rs             *)
(*                                                                         *)
(* A function is its parameters and its blocks in layout order; a block is *)
(* its name and its instructions in layout order. An instruction has an    *)
(* id, an opcode, a destination name, the result type of a call, one value *)
(* operand and its branch targets. The printer holds `indexes`, a map from *)
(* Ids to names, and `cur_index`. The text it writes is the header (the    *)
(* parameter list) and one line per label and instruction, with every name *)
(* in its printed form.                                                    *)
(***************************************************************************)

\* the parameters of a function, at most
MaxParams == 2

\* the blocks and instructions of a function body together, at most
MaxBodyItems == 4

\* a Name, or the None of an Option<Name>
Nm(kind, s, n) == [kind |-> kind, s |-> s, n |-> n]

NoName == Nm("None", "", 0)

\* the symbolic names of a function, one per position
SymNames == <<"a", "b", "c", "d", "e", "f", "g", "h", "i", "j", "k", "l">>

\* the name an entity has in the function the printer is given: symbolic,
\* a number some earlier numbering left on it, or none
name_of_kind(kind, pos) ==
    CASE kind = "Name"   -> Nm("Name", SymNames[pos], 0)
      [] kind = "Number" -> Nm("Number", "", 9)
      [] OTHER           -> NoName

\* Ids::Arg(i), Ids::Block(id), Ids::Inst(id)
Ids(k, i) == [k |-> k, i |-> i]

\* a value: a constant, an instruction result or an argument
ValueRef(k, i) == [k |-> k, i |-> i]

\* the opcodes of the instructions inside a block and of the terminators,
\* with the kind of destination the instruction carries and, for a call
\* or invoke, its result type
InstShape(opcode, destk, ty) == [opcode |-> opcode, destk |-> destk, ty |-> ty]

BodyShapes ==
    {InstShape("Add", k, "") : k \in {"Name", "Number", "None"}}
    \cup {InstShape("Store", "None", ""),
          InstShape("Call", "None", "void"),
          InstShape("Call", "None", "i32")}

TermShapes ==
    {InstShape(op, "None", "") : op \in {"Ret", "Br", "CondBr", "Resume", "Unreachable"}}
    \cup {InstShape("Invoke", "None", "void"), InstShape("Invoke", "None", "i32")}

RECURSIVE BodySeqs(_)
\* the sequences of at most n instructions inside a block
BodySeqs(n) ==
    IF n <= 0 THEN {<<>>}
    ELSE {<<>>} \cup {<<b>> \o rest : b \in BodyShapes, rest \in BodySeqs(n - 1)}

\* the blocks of exactly `size` items: the block, its inner instructions, its terminator
BlocksOfSize(size) ==
    {[namek |-> nk, insts |-> Append(body, term)] :
        nk \in {"Name", "Number", "None"},
        body \in {b \in BodySeqs(size - 2) : Len(b) = size - 2},
        term \in TermShapes}

RECURSIVE BlockSeqs(_)
\* the layouts of at most n items
BlockSeqs(n) ==
    {<<>>} \cup UNION {{<<b>> \o rest : b \in BlocksOfSize(size), rest \in BlockSeqs(n - size)} :
                       size \in 2..n}

ParamKinds == UNION {[1..n -> {"Name", "Number"}] : n \in 0..MaxParams}

\* the instructions that come before the first instruction of block b
inst_offset(shape_blocks, b) ==
    Len(Flatten([i \in 1..(b - 1) |-> shape_blocks[i].insts]))

\* the opcodes whose result is a value another instruction can use
ProducesValue(shape) ==
    \/ shape.opcode = "Add"
    \/ shape.opcode \in {"Call", "Invoke"} /\ shape.ty # "void"

\* the value operand of the instruction at position g of the layout: a
\* store or ret of a function with parameters uses the last argument, any
\* other the latest earlier result, else the first argument, else a constant
operand_of(nparams, all_shapes, g) ==
    LET earlier == {h \in 1..(g - 1) : ProducesValue(all_shapes[h])}
        latest  == CHOOSE h \in earlier : \A o \in earlier : o <= h
    IN  IF all_shapes[g].opcode \in {"Br", "Unreachable"} THEN ValueRef("None", 0)
        ELSE IF all_shapes[g].opcode \in {"Store", "Ret"} /\ nparams > 0
             THEN ValueRef("Argument", nparams - 1)
        ELSE IF earlier # {} THEN ValueRef("Instruction", latest)
        ELSE IF nparams > 0 THEN ValueRef("Argument", 0)
        ELSE ValueRef("Constant", 0)

\* the branch targets of an instruction of block b out of nb blocks
targets_of(shape, b, nb) ==
    LET next == IF b < nb THEN b + 1 ELSE 1
    IN  CASE shape.opcode = "Br"                   -> <<next>>
          [] shape.opcode \in {"CondBr", "Invoke"} -> <<next, b>>
          [] OTHER                                 -> <<>>

\* the function with these parameters and this layout
function_of(param_kinds, shape_blocks, var_arg) ==
    LET np  == Len(param_kinds)
        nb  == Len(shape_blocks)
        all == Flatten([b \in 1..nb |-> shape_blocks[b].insts])
        inst(b, j) ==
            LET g == inst_offset(shape_blocks, b) + j
                sh == shape_blocks[b].insts[j]
            IN  [id      |-> g,
                 opcode  |-> sh.opcode,
                 dest    |-> name_of_kind(sh.destk, np + nb + g),
                 ty      |-> sh.ty,
                 arg     |-> operand_of(np, all, g),
                 targets |-> targets_of(sh, b, nb)]
    IN  [params     |-> [i \in 1..np |-> name_of_kind(param_kinds[i], i)],
         is_var_arg |-> var_arg,
         blocks     |-> [b \in 1..nb |->
                            [name  |-> name_of_kind(shape_blocks[b].namek, np + b),
                             insts |-> [j \in 1..Len(shape_blocks[b].insts) |-> inst(b, j)]]]]

\* the functions the printer is called on: definitions, and prototypes
\* (no block) with and without a variable argument list
PrintedFunctions ==
    {function_of(pk, sb, FALSE) : pk \in ParamKinds, sb \in BlockSeqs(MaxBodyItems) \ {<<>>}}
    \cup {function_of(pk, <<>>, va) : pk \in ParamKinds \ {<<>>}, va \in BOOLEAN}
    \cup {function_of(<<>>, <<>>, FALSE)}

\* Function::is_prototype
is_prototype(f) == f.blocks = <<>>

\* FunctionAsmPrinter::new
FunctionAsmPrinter_new == [indexes |-> <<>>, cur_index |-> 0]

\* self.indexes.insert(id, name)
indexes_insert(p, id, name) == [p EXCEPT !.indexes = (id :> name) @@ p.indexes]

new_name_for_block(p, id) ==
    [indexes   |-> (Ids("Block", id) :> Nm("Number", "", p.cur_index)) @@ p.indexes,
     cur_index |-> p.cur_index + 1]

\* a new_name_for_inst that forgets to advance cur_index
new_name_for_inst_same_index(p, id) ==
    [indexes   |-> (Ids("Inst", id) :> Nm("Number", "", p.cur_index)) @@ p.indexes,
     cur_index |-> p.cur_index]

new_name_for_inst(p, id) ==
    [indexes   |-> (Ids("Inst", id) :> Nm("Number", "", p.cur_index)) @@ p.indexes,
     cur_index |-> p.cur_index + 1]

new_name_for_arg(p, arg) ==
    [indexes   |-> (Ids("Arg", arg) :> Nm("Number", "", p.cur_index)) @@ p.indexes,
     cur_index |-> p.cur_index + 1]

\* Name::to_string : Some(string) of a symbolic name, None of a number
Name_to_string(name) == [some |-> name.kind = "Name", s |-> name.s]

\* Operand::call_result_ty : the result type of a call or invoke, "none"
\* (None) of any other operand
call_result_ty(inst) ==
    IF inst.opcode \in {"Call", "Invoke"} THEN inst.ty ELSE "none"

\* the parameter loop, one parameter: i is the position, from 0
number_param(p, param, i) ==
    IF Name_to_string(param).some
    THEN indexes_insert(p, Ids("Arg", i), Nm("Name", Name_to_string(param).s, 0))
    ELSE new_name_for_arg(p, i)

RECURSIVE number_params(_, _, _)
number_params(p, params, i) ==
    IF i >= Len(params) THEN p
    ELSE number_params(number_param(p, params[i + 1], i), params, i + 1)

\* the first statement of the block loop: the block's name
number_block(p, block, id) ==
    IF block.name.kind # "None" /\ Name_to_string(block.name).some
    THEN indexes_insert(p, Ids("Block", id), Nm("Name", Name_to_string(block.name).s, 0))
    ELSE new_name_for_block(p, id)

\* the condition under which the instruction loop continues without naming
is_skipped(inst) ==
    \/ inst.opcode \in {"Store", "Br", "CondBr", "Ret", "Resume"}
    \/ call_result_ty(inst) = "void"

\* the body of the instruction loop
number_inst(p, inst) ==
    IF is_skipped(inst) THEN p
    ELSE IF inst.dest.kind = "Name"
         THEN indexes_insert(p, Ids("Inst", inst.id), Nm("Name", inst.dest.s, 0))
         ELSE new_name_for_inst(p, inst.id)

RECURSIVE number_insts(_, _)
number_insts(p, insts) ==
    IF insts = <<>> THEN p
    ELSE number_insts(number_inst(p, Head(insts)), Tail(insts))

RECURSIVE number_blocks(_, _, _)
\* the first loop over the layout: b is the id of the first block of `blocks`
number_blocks(p, blocks, b) ==
    IF blocks = <<>> THEN p
    ELSE number_blocks(number_insts(number_block(p, Head(blocks), b), Head(blocks).insts),
                       Tail(blocks), b + 1)

\* the numbering of print: the parameters, then, unless f is a prototype,
\* the blocks
number_function(f) ==
    LET p == number_params(FunctionAsmPrinter_new, f.params, 0)
    IN  IF is_prototype(f) THEN p ELSE number_blocks(p, f.blocks, 1)

\* the printed form of a name ({:?}): the identifier or the decimal number;
\* absent marks an index of `indexes` that has no entry (the code panics)
NameText(t, s, n) == [t |-> t, s |-> s, n |-> n]

AbsentText == NameText("absent", "", 0)

name_text(name) ==
    IF name.kind = "Name" THEN NameText("ident", name.s, 0)
    ELSE NameText("num", "", name.n)

\* self.indexes[&id]
index_text(p, id) ==
    IF id \in DOMAIN p.indexes THEN name_text(p.indexes[id]) ELSE AbsentText

\* the parameter list between the parentheses: each name, ", " after all
\* but the last, and ", ..." of a variable argument list
RECURSIVE param_list_text(_, _, _)
param_list_text(p, f, i) ==
    IF i >= Len(f.params)
    THEN IF f.is_var_arg THEN <<NameText("punct", ",", 0), NameText("punct", "...", 0)>> ELSE <<>>
    ELSE <<index_text(p, Ids("Arg", i))>>
         \o (IF i = Len(f.params) - 1 THEN <<>> ELSE <<NameText("punct", ",", 0)>>)
         \o param_list_text(p, f, i + 1)

value_to_string(p, val) ==
    CASE val.k = "Instruction" -> [k |-> "local", name |-> index_text(p, Ids("Inst", val.i))]
      [] val.k = "Argument"    -> [k |-> "local", name |-> index_text(p, Ids("Arg", val.i))]
      [] OTHER                 -> [k |-> val.k, name |-> AbsentText]

\* the line print_inst writes: `%dest = ` for the operands that have it
\* (a call or invoke only when its type is not void), the opcode, the
\* operand and the labels
print_inst(p, inst) ==
    LET dest == IF Ids("Inst", inst.id) \in DOMAIN p.indexes
                THEN p.indexes[Ids("Inst", inst.id)]
                ELSE Nm("Number", "", 0 - 1)
        has_dest == \/ inst.opcode = "Add"
                    \/ inst.opcode \in {"Call", "Invoke"} /\ inst.ty # "void"
    IN  [l       |-> "inst",
         opcode  |-> inst.opcode,
         ty      |-> inst.ty,
         dest    |-> IF has_dest THEN name_text(dest) ELSE AbsentText,
         arg     |-> value_to_string(p, inst.arg),
         targets |-> [i \in 1..Len(inst.targets) |->
                         index_text(p, Ids("Block", inst.targets[i]))]]

\* the second loop over the layout: the label of block b and its lines
print_block(p, block, b) ==
    <<[l |-> "label", opcode |-> "", ty |-> "",
       dest |-> index_text(p, Ids("Block", b)),
       arg |-> [k |-> "None", name |-> AbsentText], targets |-> <<>>]>>
    \o [j \in 1..Len(block.insts) |-> print_inst(p, block.insts[j])]

\* what print has written when it returns
function_text(p, f) ==
    [declare |-> is_prototype(f),
     params  |-> param_list_text(p, f, 0),
     lines   |-> Flatten([b \in 1..Len(f.blocks) |-> print_block(p, f.blocks[b], b)])]

\* an index of `indexes` without entry was read: the code panics
text_panics(text) ==
    \/ \E i \in DOMAIN text.lines :
          \/ text.lines[i].l = "label" /\ text.lines[i].dest = AbsentText
          \/ text.lines[i].arg.k = "local" /\ text.lines[i].arg.name = AbsentText
          \/ \E t \in DOMAIN text.lines[i].targets : text.lines[i].targets[t] = AbsentText
    \/ \E i \in DOMAIN text.params : text.params[i] = AbsentText

\* the function parser on the text of one function, as far as names go: a
\* name is symbolic or numeric as written, a use is resolved through the
\* table of the names defined in the function, and a name defined twice or
\* a use without definition is an error
name_from_text(tx) ==
    IF tx.t = "ident" THEN Nm("Name", tx.s, 0) ELSE Nm("Number", "", tx.n)

ParamsErr == [res |-> "Err", params |-> <<>>, is_var_arg |-> FALSE]

RECURSIVE parse_param_list(_)
\* name ("," name)* ("," "...")?, or nothing
parse_param_list(toks) ==
    IF toks = <<>> THEN [res |-> "Ok", params |-> <<>>, is_var_arg |-> FALSE]
    ELSE IF Head(toks).t \notin {"ident", "num"} THEN ParamsErr
    ELSE LET first == name_from_text(Head(toks))
             rest  == Tail(toks)
         IN  IF rest = <<>>
             THEN [res |-> "Ok", params |-> <<first>>, is_var_arg |-> FALSE]
             ELSE IF Head(rest) # NameText("punct", ",", 0) \/ Tail(rest) = <<>>
             THEN ParamsErr
             ELSE IF Tail(rest) = <<NameText("punct", "...", 0)>>
             THEN [res |-> "Ok", params |-> <<first>>, is_var_arg |-> TRUE]
             ELSE LET more == parse_param_list(Tail(rest))
                  IN  IF more.res = "Err" THEN ParamsErr
                      ELSE [more EXCEPT !.params = <<first>> \o @]

RECURSIVE group_lines(_, _)
\* the lines of the body by block: a label opens a block
group_lines(acc, lines) ==
    IF lines = <<>> THEN acc
    ELSE LET ln == Head(lines)
         IN  group_lines(
                 IF ln.l = "label" THEN Append(acc, [name |-> ln.dest, lines |-> <<>>])
                 ELSE IF acc = <<>> THEN <<[name |-> AbsentText, lines |-> <<ln>>]>>
                 ELSE [acc EXCEPT ![Len(acc)].lines = Append(@, ln)],
                 Tail(lines))

parse_function(text) ==
    LET pl       == parse_param_list(text.params)
        groups   == group_lines(<<>>, text.lines)
        inst_lines == Flatten([b \in 1..Len(groups) |-> groups[b].lines])
        \* the table of the values: arguments and destinations
        value_defs(tx) ==
            {ValueRef("Argument", i - 1) : i \in {j \in DOMAIN pl.params : pl.params[j] = name_from_text(tx)}}
            \cup {ValueRef("Instruction", g) : g \in {h \in DOMAIN inst_lines : inst_lines[h].dest = tx}}
        block_defs(tx) == {b \in DOMAIN groups : groups[b].name = tx}
        value_texts ==
            {inst_lines[g].dest : g \in {h \in DOMAIN inst_lines : inst_lines[h].dest # AbsentText}}
            \cup {name_text(pl.params[i]) : i \in DOMAIN pl.params}
        used_values ==
            {inst_lines[g].arg.name : g \in {h \in DOMAIN inst_lines : inst_lines[h].arg.k = "local"}}
        used_blocks ==
            UNION {{inst_lines[g].targets[t] : t \in DOMAIN inst_lines[g].targets} :
                   g \in DOMAIN inst_lines}
        resolved ==
            /\ \A tx \in value_texts : Cardinality(value_defs(tx)) = 1
            /\ \A tx \in used_values : Cardinality(value_defs(tx)) = 1
            /\ \A b \in DOMAIN groups :
                   groups[b].name # AbsentText => Cardinality(block_defs(groups[b].name)) = 1
            /\ \A tx \in used_blocks : Cardinality(block_defs(tx)) = 1
        offset(b) == Len(Flatten([i \in 1..(b - 1) |-> groups[i].lines]))
        inst(b, j) ==
            LET ln == groups[b].lines[j]
            IN  [id      |-> offset(b) + j,
                 opcode  |-> ln.opcode,
                 dest    |-> IF ln.dest = AbsentText THEN NoName ELSE name_from_text(ln.dest),
                 ty      |-> ln.ty,
                 arg     |-> IF ln.arg.k = "local"
                             THEN CHOOSE v \in value_defs(ln.arg.name) : TRUE
                             ELSE ValueRef(ln.arg.k, 0),
                 targets |-> [t \in 1..Len(ln.targets) |->
                                 CHOOSE b2 \in block_defs(ln.targets[t]) : TRUE]]
    IN  IF pl.res = "Err" \/ ~resolved \/ (text.declare /\ groups # <<>>)
           \/ (~text.declare /\ groups = <<>>)
        THEN [res |-> "Err", f |-> [params |-> <<>>, is_var_arg |-> FALSE, blocks |-> <<>>]]
        ELSE [res |-> "Ok",
              f   |-> [params     |-> pl.params,
                       is_var_arg |-> pl.is_var_arg,
                       blocks     |-> [b \in 1..Len(groups) |->
                                          [name  |-> IF groups[b].name = AbsentText THEN NoName
                                                     ELSE name_from_text(groups[b].name),
                                           insts |-> [j \in 1..Len(groups[b].lines) |-> inst(b, j)]]]]]

PrintInit ==
    /\ pfun \in PrintedFunctions
    /\ pst = [pc |-> "new", printer |-> FunctionAsmPrinter_new]
    /\ SpillIdle
    /\ LowerIdle
    /\ ParseIdle
    /\ RegIdle
    /\ ConstIdle
    /\ InterpIdle

\* a call printer.print(f) on a new printer
PrintFunction ==
    /\ pst.pc = "new"
    /\ LET p    == number_function(pfun)
           text == function_text(p, pfun)
       IN  pst' = [pc      |-> IF text_panics(text) THEN "panic" ELSE "printed",
                   printer |-> p,
                   text    |-> text]
    /\ UNCHANGED <<pfun, vars, lower_vars, parse_vars, reg_vars, const_vars, interp_vars>>

\* the printed text is parsed again
ParsePrinted ==
    /\ pst.pc = "printed"
    /\ pst' = [pc      |-> "reparsed",
               printer |-> pst.printer,
               text    |-> pst.text,
               parsed  |-> parse_function(pst.text)]
    /\ UNCHANGED <<pfun, vars, lower_vars, parse_vars, reg_vars, const_vars, interp_vars>>

PrintNext == PrintFunction \/ ParsePrinted

SpecPrint == PrintInit /\ [][PrintNext]_all_vars

Printed == pst.pc \in {"printed", "reparsed"}

AllInsts(f) == Flatten([b \in 1..Len(f.blocks) |-> f.blocks[b].insts])

\* the entities of f in the order of the walk: the arguments by position,
\* then each block followed by its instructions
WalkOrder(f) ==
    [i \in 1..Len(f.params) |-> Ids("Arg", i - 1)]
    \o Flatten([b \in 1..Len(f.blocks) |->
                   <<Ids("Block", b)>>
                   \o [j \in 1..Len(f.blocks[b].insts) |-> Ids("Inst", f.blocks[b].insts[j].id)]])

\* the name an entity has in f
GivenName(f, id) ==
    CASE id.k = "Arg"   -> f.params[id.i + 1]
      [] id.k = "Block" -> f.blocks[id.i].name
      [] OTHER          -> AllInsts(f)[id.i].dest

\* an instruction without result: a store, a branch, a return, a resume,
\* a call or invoke of type void, an unreachable
NoResult(inst) ==
    \/ inst.opcode \in {"Store", "Br", "CondBr", "Ret", "Resume", "Unreachable"}
    \/ inst.opcode \in {"Call", "Invoke"} /\ inst.ty = "void"

\* the unnamed entities of f in walk order: the arguments and blocks
\* without symbolic name and the result-producing instructions without
\* symbolic name
UnnamedEntities(f) ==
    LET unnamed(id) ==
            /\ GivenName(f, id).kind # "Name"
            /\ id.k = "Inst" => ~NoResult(AllInsts(f)[id.i])
    IN  SelectSeq(WalkOrder(f), unnamed)

NumberOf(id) ==
    IF id \in DOMAIN pst.printer.indexes /\ pst.printer.indexes[id].kind = "Number"
    THEN pst.printer.indexes[id].n
    ELSE 0 - 1

\* no two entities have the same number in `indexes`
NoNumberTwice ==
    Printed =>
        \A x, y \in DOMAIN pst.printer.indexes :
            (x # y /\ NumberOf(x) >= 0) => NumberOf(x) # NumberOf(y)

\* an entity with a symbolic name has that name in `indexes`
SymbolicNamesKept ==
    Printed =>
        \A i \in DOMAIN WalkOrder(pfun) :
            LET id == WalkOrder(pfun)[i]
            IN  GivenName(pfun, id).kind = "Name" =>
                    /\ id \in DOMAIN pst.printer.indexes
                    /\ pst.printer.indexes[id] = GivenName(pfun, id)

\* C23: print numbers the unnamed entities 0, 1, 2, ... in the order of one
\* left-to-right walk (unnamed arguments by position, then each block
\* without symbolic name followed by its result-producing instructions
\* without symbolic name), gives no number twice and keeps symbolic names
C23_ConsecutiveNumbers ==
    /\ Printed =>
          \A i \in DOMAIN UnnamedEntities(pfun) : NumberOf(UnnamedEntities(pfun)[i]) = i - 1
    /\ NoNumberTwice
    /\ SymbolicNamesKept

HasUnreachable(f) == \E g \in DOMAIN AllInsts(f) : AllInsts(f)[g].opcode = "Unreachable"

\* what holds of the numbers: they are consecutive in every function
\* without `unreachable`, and in every function once `unreachable` is
\* counted among the numbered entities
ConsecutiveButForUnreachable ==
    Printed =>
        LET counted(id) ==
                /\ GivenName(pfun, id).kind # "Name"
                /\ id.k = "Inst" =>
                      \/ ~NoResult(AllInsts(pfun)[id.i])
                      \/ AllInsts(pfun)[id.i].opcode = "Unreachable"
            es == SelectSeq(WalkOrder(pfun), counted)
        IN  /\ \A i \in DOMAIN es : NumberOf(es[i]) = i - 1
            /\ pst.printer.cur_index = Len(es)
            /\ ~HasUnreachable(pfun) => es = UnnamedEntities(pfun)

\* C24: an instruction whose opcode is store, br, condbr, ret or resume, or
\* whose result type is void (a void call or invoke, and unreachable) has
\* no entry in `indexes` after the walk, and cur_index has advanced only
\* for the other unnamed entities
C24_NoResultNotNumbered ==
    Printed =>
        /\ \A g \in DOMAIN AllInsts(pfun) :
              NoResult(AllInsts(pfun)[g]) => Ids("Inst", g) \notin DOMAIN pst.printer.indexes
        /\ pst.printer.cur_index = Len(UnnamedEntities(pfun))

\* what holds: every instruction without result other than unreachable is
\* left without entry, and unreachable is numbered
OnlyUnreachableIsNumbered ==
    Printed =>
        \A g \in DOMAIN AllInsts(pfun) :
            NoResult(AllInsts(pfun)[g]) =>
                (Ids("Inst", g) \in DOMAIN pst.printer.indexes
                    <=> AllInsts(pfun)[g].opcode = "Unreachable")

\* numeric and missing names replaced by one mark: equality of the results
\* is equality up to the numbering of unnamed entities
erase_name(name) == IF name.kind = "Name" THEN name ELSE Nm("Unnamed", "", 0)

erase_numbers(f) ==
    [params     |-> [i \in DOMAIN f.params |-> erase_name(f.params[i])],
     is_var_arg |-> f.is_var_arg,
     blocks     |-> [b \in DOMAIN f.blocks |->
                        [name  |-> erase_name(f.blocks[b].name),
                         insts |-> [j \in DOMAIN f.blocks[b].insts |->
                                       [f.blocks[b].insts[j] EXCEPT !.dest = erase_name(@)]]]]]

====
